---- MODULE Spec2Model ----
(***************************************************************************)
(* Content-normalisation subsystem of shop-backend: the URL-keyed TTL      *)
(* cache (app/scraper/cache.py), the fetch backends, the single-URL fetch  *)
(* dispatcher and the batch orchestrator                                   *)
(* (app/scraper/crawler/html_fetcher.py and the modules it calls).         *)
(*                                                                         *)
(* Strings are sequences of atoms.  An atom is a TLA+ string standing for  *)
(* a run of characters; the atoms "[", "]", "(", ")", " ", "\n", "/", "&"  *)
(* and the pattern atoms ("http://", "v=", ".json", ...) stand for exactly *)
(* those characters and no other atom contains them, so substring tests,   *)
(* splits and the regular expressions of the code are computed on atoms    *)
(* exactly as the code computes them on characters.                        *)
(***************************************************************************)
EXTENDS Integers, Sequences, FiniteSets, TLC

VARIABLES
    \* ---- ScrapeCache (app/scraper/cache.py)
    enabled,      \* settings.ENABLE_CACHE
    cache,        \* self.cache: url -> CacheEntry
    file,         \* content of cache/scrape_cache.json
    now,          \* time.time()
    lastOp,       \* the last get/set call and what it returned
    lastSet,      \* history: per url, the data and time of the last effective set
    expGets,      \* history: per url, gets issued past the TTL since that set
    \* ---- fetch backends
    backendRun,   \* per backend, its last invocation and what came of it
    \* ---- fetch (single URL)
    fetchRun,     \* the last fetch call and its outcome
    \* ---- fetch_batch
    urls, output_format, save_debug, use_external_crawler, max_concurrent,
    bpc,          \* position of fetch_batch: "loop", "gather", "done", "raised"
    i,            \* the loop variable of the window loop (0-based)
    tasks,        \* the calls of the current window, in dispatch order
    results,      \* the mapping being built
    calls,        \* history: per input position, the call dispatched for it
    running,      \* history: input positions whose call is in flight
    windows,      \* history: number of windows dispatched
    peak,         \* history: high-water mark of calls in flight
    \* ---- the converters and URL helpers called on their own
    input,        \* the function called and its argument
    outputs,      \* what it returned, one value per application
    \* ---- a second process with its own ScrapeCache on the same file
    peer,         \* its in-memory map, the map it loaded, the URLs it set
    \* ---- analyze_product (app/agents/product_research_agent_v1.py)
    agent         \* position, attempt number and history of one call

cacheVars == <<enabled, cache, file, now, lastOp, lastSet, expGets>>
backendVars == <<backendRun>>
fetchVars == <<fetchRun>>
batchVars == <<urls, output_format, save_debug, use_external_crawler,
               max_concurrent, bpc, i, tasks, results, calls, running, windows,
               peak>>
funcVars == <<input, outputs>>
vars == <<cacheVars, backendVars, fetchVars, batchVars, funcVars, peer, agent>>

\* Python's None
Null == "None"

(***************************************************************************)
(* Finite maps (Python dicts)                                              *)
(***************************************************************************)
EmptyMap == [x \in {} |-> Null]

Put(m, k, v) == [x \in (DOMAIN m) \cup {k} |-> IF x = k THEN v ELSE m[x]]

\* Variant of Del that leaves the map as it was
DelNot(m, k) == m

Del(m, k) == [x \in (DOMAIN m) \ {k} |-> m[x]]

(***************************************************************************)
(* Strings as sequences of atoms                                           *)
(***************************************************************************)
\* pat occurs in s starting at position k
OccursAt(pat, s, k) ==
    /\ k >= 1
    /\ k + Len(pat) - 1 <= Len(s)
    /\ \A j \in 1..Len(pat) : s[k + j - 1] = pat[j]

\* Python: pat in s
Contains(pat, s) == \E k \in 1..Len(s) : OccursAt(pat, s, k)

\* Python: s.endswith(pat)
EndsWith(s, pat) == OccursAt(pat, s, Len(s) - Len(pat) + 1)

\* Python: s.split(sep)[-1], sep a single atom
SplitLast(s, sep) ==
    LET ks == {k \in 1..Len(s) : s[k] = sep}
    IN  IF ks = {} THEN s
        ELSE LET k == CHOOSE x \in ks : \A y \in ks : y <= x
             IN  SubSeq(s, k + 1, Len(s))

\* Python: s.split(sep)[0], sep a single atom
SplitFirst(s, sep) ==
    LET ks == {k \in 1..Len(s) : s[k] = sep}
    IN  IF ks = {} THEN s
        ELSE LET k == CHOOSE x \in ks : \A y \in ks : x <= y
             IN  SubSeq(s, 1, k - 1)

IsSpace(a) == a \in {" ", "\n"}

\* Python: s.strip()
RECURSIVE LStrip(_)
LStrip(s) == IF s # <<>> /\ IsSpace(Head(s)) THEN LStrip(Tail(s)) ELSE s

RECURSIVE RStrip(_)
RStrip(s) ==
    IF s # <<>> /\ IsSpace(s[Len(s)]) THEN RStrip(SubSeq(s, 1, Len(s) - 1)) ELSE s

Strip(s) == RStrip(LStrip(s))

\* Python: sep.join(parts)
RECURSIVE Join(_, _)
Join(parts, sep) ==
    IF parts = <<>> THEN <<>>
    ELSE IF Len(parts) = 1 THEN parts[1]
    ELSE parts[1] \o sep \o Join(Tail(parts), sep)

\* The least position >= k of s holding atom a, or 0
FirstAt(s, a, k) ==
    LET ks == {x \in k..Len(s) : s[x] = a}
    IN  IF ks = {} THEN 0 ELSE CHOOSE x \in ks : \A y \in ks : x <= y

(***************************************************************************)
(* JSON values (what response.json() and json.loads return).  t is the     *)
(* Python type; n the number, sk/sv the str, items the list, fields the    *)
(* dict.                                                                   *)
(***************************************************************************)
JNull == [t |-> "null", n |-> 0, sk |-> "text", sv |-> <<>>, items |-> <<>>,
          fields |-> EmptyMap]

JNum(n) == [JNull EXCEPT !.t = "num", !.n = n]

\* a JSON string holding the text (k = "text") or the HTML page (k = "html") c
JStr(c) == [JNull EXCEPT !.t = "str", !.sk = c.k, !.sv = c.v]

JList(items) == [JNull EXCEPT !.t = "list", !.items = items]

\* a JSON object; fields is a record
JDict(fields) == [JNull EXCEPT !.t = "dict", !.fields = fields]

IsDict(j) == j.t = "dict"

IsList(j) == j.t = "list"

\* key in j, for a dict j
Has(j, key) == key \in DOMAIN j.fields

\* Python truthiness of a JSON value
JTruthy(j) ==
    CASE j.t = "null" -> FALSE
      [] j.t = "num" -> j.n # 0
      [] j.t = "str" -> j.sv # <<>>
      [] j.t = "list" -> j.items # <<>>
      [] OTHER -> DOMAIN j.fields # {}

(***************************************************************************)
(* Values a call can produce: None, a str, or a raised exception.  A str   *)
(* is plain text (atoms), or the text of an HTML page or of a JSON         *)
(* document, named by the page or the document it parses to.               *)
(***************************************************************************)
None == [k |-> "none", v |-> <<>>]

Text(s) == [k |-> "text", v |-> s]

Html(page) == [k |-> "html", v |-> <<page>>]

JsonText(doc) == [k |-> "json", v |-> <<doc>>]

Exc(e) == [k |-> "exc", v |-> <<e>>]

\* isinstance(x, str)
IsStr(x) == x.k \in {"text", "html", "json"}

\* isinstance(x, Exception)
IsException(x) == x.k = "exc"

\* Python truthiness of None or a str
Truthy(x) == IsStr(x) /\ ~(x.k = "text" /\ x.v = <<>>)

(***************************************************************************)
(* sanitize_markdown_links                                                 *)
(***************************************************************************)
\* re.sub(r"\[([^\]]+)\]\([^)]+\)", r"\1", s): at a "[" the group runs to the
\* first "]", which must be followed by "(", a non-empty run and the first ")".
\* The text before the first "[" is copied; a "[" that starts no match is too.
RECURSIVE SubLinks(_)
SubLinks(s) ==
    LET p == FirstAt(s, "[", 1)
        q == FirstAt(s, "]", p + 1)
        r == IF q = 0 THEN 0 ELSE FirstAt(s, ")", q + 2)
    IN  IF p = 0 THEN s
        ELSE IF /\ q > p + 1
                /\ q + 1 <= Len(s)
                /\ s[q + 1] = "("
                /\ r > q + 2
             THEN SubSeq(s, 1, p - 1) \o SubSeq(s, p + 1, q - 1)
                    \o SubLinks(SubSeq(s, r + 1, Len(s)))
             ELSE SubSeq(s, 1, p) \o SubLinks(SubSeq(s, p + 1, Len(s)))

\* re.sub(r"https?://\S+", "", s): a scheme followed by at least one
\* non-whitespace character is removed with the whole non-whitespace run
RECURSIVE SubUrls(_)
SubUrls(s) ==
    LET IsScheme(a) == a \in {"http://", "https://"}
        \* the least position >= from of s holding whitespace, or Len(s) + 1
        SpaceAt(from) ==
            LET ws == {x \in from..Len(s) : IsSpace(s[x])}
            IN  IF ws = {} THEN Len(s) + 1 ELSE CHOOSE x \in ws : \A y \in ws : x <= y
        ks == {x \in 1..(Len(s) - 1) : IsScheme(s[x]) /\ ~IsSpace(s[x + 1])}
        k == CHOOSE x \in ks : \A y \in ks : x <= y
    IN  IF ks = {} THEN s
        ELSE SubSeq(s, 1, k - 1) \o SubUrls(SubSeq(s, SpaceAt(k + 1), Len(s)))

sanitize_markdown_links(markdown) ==
    IF markdown = None THEN None
    ELSE IF markdown.k = "text" THEN Text(SubUrls(SubLinks(markdown.v)))
    ELSE markdown

(***************************************************************************)
(* URL classification                                                      *)
(***************************************************************************)
\* "youtube.com/watch?v=", "youtu.be/" and "reddit.com" as atoms
YoutubeWatch == <<"youtube.com", "/", "watch?", "v=">>
YoutuBe == <<"youtu.be", "/">>
RedditCom == <<"reddit.com">>

\* extract_youtube_id: None or the id
extract_youtube_id(url) ==
    IF Contains(YoutubeWatch, url) THEN Text(SplitFirst(SplitLast(url, "v="), "&"))
    ELSE IF Contains(YoutuBe, url) THEN Text(SplitLast(url, "/"))
    ELSE None

\* Variant of convert_reddit_url_to_json that appends ".json" to every URL
convert_reddit_url_to_json_always(url) ==
    (IF EndsWith(url, <<"/">>) THEN SubSeq(url, 1, Len(url) - 1) ELSE url) \o <<".json">>

\* convert_reddit_url_to_json
convert_reddit_url_to_json(url) ==
    LET u == IF EndsWith(url, <<"/">>) THEN SubSeq(url, 1, Len(url) - 1) ELSE url
    IN  IF EndsWith(u, <<".json">>) THEN u ELSE u \o <<".json">>

\* The URLs of the model
UrlGeneric == <<"https:", "/", "/", "x.io", "/", "a">>
UrlGeneric2 == <<"https:", "/", "/", "x.io", "/", "b">>
UrlYoutuBe == <<"https:", "/", "/", "youtu.be", "/", "v1">>
UrlWatch == <<"https:", "/", "/", "www.", "youtube.com", "/", "watch?", "v=", "v2", "&", "t=5">>
UrlReddit == <<"https:", "/", "/", "www.", "reddit.com", "/", "r", "/", "t", "/">>
UrlWatchReddit == <<"https:", "/", "/", "youtu.be", "/", "v3", "?", "s=", "reddit.com">>

Urls == {UrlGeneric, UrlGeneric2, UrlYoutuBe, UrlWatch, UrlReddit, UrlWatchReddit}

\* the str a JSON string holds
StrOf(j) == [k |-> j.sk, v |-> j.sv]

(***************************************************************************)
(* Reddit JSON -> Markdown (app/scraper/reddit/json_parser.py).  The       *)
(* operators return [err, lines]: err when the Python code raises there.   *)
(***************************************************************************)
Ok(lines) == [err |-> FALSE, lines |-> lines]

Raised == [err |-> TRUE, lines |-> <<>>]

\* d.get(key, default)
DictGet(d, key, default) == IF Has(d, key) THEN d.fields[key] ELSE default

\* a value inside an f-string
Fmt(j) ==
    CASE j.t = "str" -> j.sv
      [] j.t = "num" -> <<ToString(j.n)>>
      [] j.t = "null" -> <<"None">>
      [] OTHER -> <<"repr">>

\* format_timestamp: "%Y-%m-%d %H:%M:%S" of the epoch number; anything that
\* makes fromtimestamp raise is caught and gives str(timestamp)
format_timestamp(j) ==
    IF j.t = "num" THEN <<"date", ToString(j.n), " ", "00:00:00">> ELSE Fmt(j)

\* Python: s.split("\n")
RECURSIVE SplitLines(_)
SplitLines(s) ==
    LET k == FirstAt(s, "\n", 1)
    IN  IF k = 0 THEN <<s>>
        ELSE <<SubSeq(s, 1, k - 1)>> \o SplitLines(SubSeq(s, k + 1, Len(s)))

\* Python: prefix * n
RECURSIVE Repeat(_, _)
Repeat(s, n) == IF n <= 0 THEN <<>> ELSE s \o Repeat(s, n - 1)

\* "key" in x: a dict looks up its keys, a list or str of the model does not
\* hold the key, any other value raises TypeError
InRaises(x) == x.t \in {"num", "null"}

In(key, x) == IsDict(x) /\ Has(x, key)

JEmptyStr == JStr(Text(<<>>))

RECURSIVE process_comment_tree(_, _)
RECURSIVE ProcessReplies(_, _)
\* the loop over replies["data"]["children"] of process_comment_tree
ProcessReplies(children, depth) ==
    IF children = <<>> THEN Ok(<<>>)
    ELSE LET child == Head(children)
         IN  IF ~IsDict(child) THEN Raised
             ELSE LET first == IF DictGet(child, "kind", JNull) = JStr(Text(<<"t1">>))
                               THEN process_comment_tree(child, depth + 1)
                               ELSE Ok(<<>>)
                      rest == ProcessReplies(Tail(children), depth)
                  IN  IF first.err \/ rest.err THEN Raised
                      ELSE Ok(first.lines \o rest.lines)

process_comment_tree(comment_data, depth) ==
    IF ~IsDict(comment_data) \/ ~Has(comment_data, "data") THEN Ok(<<>>)
    ELSE
    LET data == comment_data.fields.data
        bodyJ == DictGet(data, "body", JEmptyStr)
        authorJ == DictGet(data, "author", JNull)
        gone == /\ authorJ.t = "str"
                /\ authorJ.sv \in {<<"[", "deleted", "]">>, <<"[", "removed", "]">>}
        prefix == Repeat(<<" ", " ">>, depth)
        quote_prefix == IF depth > 0 THEN Repeat(<<">", " ">>, depth + 1) ELSE <<>>
        author == Fmt(DictGet(data, "author", JStr(Text(<<"[", "deleted", "]">>))))
        score == Fmt(DictGet(data, "score", JNum(0)))
        timestamp == format_timestamp(DictGet(data, "created_utc", JNum(0)))
        header ==
            IF depth = 0
            THEN << <<"##", " ", "Comment", " ", "by", " ", "u/">> \o author,
                    <<"**", "Score", ":", " ">> \o score \o <<" ", "|", " ", "Posted", ":", " ">>
                        \o timestamp \o <<"**", "\n">> >>
            ELSE << quote_prefix \o <<"**", "u/">> \o author
                        \o <<" ", "|", " ", "Score", ":", " ">> \o score \o <<"**">> >>
        body == Strip(bodyJ.sv)
        body_lines ==
            IF body = <<>> THEN <<>>
            ELSE [n \in 1..Len(SplitLines(body)) |->
                    (IF depth = 0 THEN prefix ELSE quote_prefix)
                        \o SplitLines(body)[n]] \o << <<>> >>
        replies == DictGet(data, "replies", JDict(EmptyMap))
        children == replies.fields.data.fields.children
    IN  IF ~IsDict(data) THEN Raised
        \* .strip() of a body that is not a str
        ELSE IF bodyJ.t # "str" THEN Raised
        ELSE IF gone /\ body = <<>> THEN Ok(<<>>)
        ELSE IF ~(IsDict(replies) /\ Has(replies, "data")) THEN Ok(header \o body_lines)
        ELSE IF InRaises(replies.fields.data) THEN Raised
        ELSE IF ~In("children", replies.fields.data) THEN Ok(header \o body_lines)
        ELSE IF children.t \in {"num", "null"} THEN Raised
        ELSE IF ~IsList(children) THEN
            \* iterating a dict or a str gives str items, and child.get raises
            IF JTruthy(children) THEN Raised ELSE Ok(header \o body_lines)
        ELSE LET sub == ProcessReplies(children.items, depth)
             IN  IF sub.err THEN Raised ELSE Ok(header \o body_lines \o sub.lines)

\* the post part of convert_reddit_json_to_markdown: [err, lines]
PostLines(first) ==
    LET d == first.fields.data
        ch == d.fields.children
        post_item == ch.items[1]
        post_data == post_item.fields.data
        ratio == DictGet(post_data, "upvote_ratio", JNum(0))
        lines ==
            << <<"#", " ">> \o Fmt(DictGet(post_data, "title", JEmptyStr)),
               <<"**", "Posted", " ", "by", " ", "u/">>
                  \o Fmt(DictGet(post_data, "author", JStr(Text(<<"[", "deleted", "]">>))))
                  \o <<" ", "|", " ", "Score", ":", " ">>
                  \o Fmt(DictGet(post_data, "score", JNum(0)))
                  \o <<" ", "|", " ", "Upvote", " ", "Ratio", ":", " ">>
                  \o <<ToString(ratio.n), "%">>
                  \o <<" ", "|", " ", "Comments", ":", " ">>
                  \o Fmt(DictGet(post_data, "num_comments", JNum(0)))
                  \o <<" ", "|", " ", "Posted", ":", " ">>
                  \o format_timestamp(DictGet(post_data, "created_utc", JNum(0)))
                  \o <<"**", "\n">> >>
    IN  IF ~(IsDict(first) /\ Has(first, "data")) THEN Ok(<<>>)
        ELSE IF InRaises(d) THEN Raised
        ELSE IF ~In("children", d) \/ ~JTruthy(ch) THEN Ok(<<>>)
        \* children[0] of a dict (KeyError) or a number (TypeError)
        ELSE IF ch.t \in {"dict", "num"} THEN Raised
        \* children[0] of a str is a str, and post_item.get raises
        ELSE IF ~IsList(ch) \/ ~IsDict(post_item) THEN Raised
        ELSE IF ~(DictGet(post_item, "kind", JNull) = JStr(Text(<<"t3">>))
                  /\ Has(post_item, "data")) THEN Ok(<<>>)
        ELSE IF ~JTruthy(post_data) THEN Ok(<<>>)
        \* post_data.get of a value that is not a dict; ":.0%" of a non-number
        ELSE IF ~IsDict(post_data) \/ ratio.t # "num" THEN Raised
        ELSE Ok(lines)

\* the comments part: [err, lines]
RECURSIVE TopComments(_)
TopComments(comments) ==
    IF comments = <<>> THEN Ok(<<>>)
    ELSE LET comment == Head(comments)
         IN  IF ~IsDict(comment) THEN Raised
             ELSE LET first == IF DictGet(comment, "kind", JNull) = JStr(Text(<<"t1">>))
                               THEN process_comment_tree(comment, 0)
                               ELSE Ok(<<>>)
                      rest == TopComments(Tail(comments))
                  IN  IF first.err \/ rest.err THEN Raised
                      ELSE Ok(first.lines \o rest.lines)

CommentLines(second) ==
    LET d == second.fields.data
        comments == d.fields.children
        head == IF JTruthy(comments)
                THEN << <<"---">>, <<"#", " ", "Comments", "\n">> >> ELSE <<>>
    IN  IF ~(IsDict(second) /\ Has(second, "data")) THEN Ok(<<>>)
        ELSE IF InRaises(d) THEN Raised
        ELSE IF ~In("children", d) THEN Ok(<<>>)
        ELSE IF comments.t \in {"num", "null"} THEN Raised
        ELSE IF ~IsList(comments) THEN
            IF JTruthy(comments) THEN Raised ELSE Ok(<<>>)
        ELSE LET sub == TopComments(comments.items)
             IN  IF sub.err THEN Raised ELSE Ok(head \o sub.lines)

NoRedditContent ==
    <<"No", " ", "Reddit", " ", "content", " ", "could", " ", "be", " ", "extracted">>

\* Variant: text that is not JSON gives the no-content text
NoContentForBadJson == NoRedditContent

ErrorParsing ==
    <<"Error", " ", "parsing", " ", "Reddit", " ", "JSON", ":", " ", "Expecting", " ", "value">>

ErrorProcessing ==
    <<"Error", " ", "processing", " ", "Reddit", " ", "content", ":", " ", "message">>

\* The JSON documents of the model, by name
Link(text, href) == <<"[", text, "]", "(", "https://", href, ")">>

RedditDoc(name) ==
    LET RedditComment(author, body, replies) ==
            JDict([kind |-> JStr(Text(<<"t1">>)),
                   data |-> JDict([author |-> JStr(Text(author)),
                                   body |-> JStr(Text(body)),
                                   score |-> JNum(2), created_utc |-> JNum(1),
                                   replies |-> replies])])
        Listing(children) == JDict([kind |-> JStr(Text(<<"Listing">>)),
                                    data |-> JDict([children |-> JList(children)])])
        RedditPost ==
            JDict([kind |-> JStr(Text(<<"t3">>)),
                   data |-> JDict([title |-> JStr(Text(<<"Title">>)),
                                   author |-> JStr(Text(<<"op">>)),
                                   selftext |-> JStr(Text(<<"text">>)),
                                   score |-> JNum(5), upvote_ratio |-> JNum(97),
                                   num_comments |-> JNum(2), created_utc |-> JNum(1)])])
    IN
    CASE name = "thread" ->
            JList(<<Listing(<<RedditPost>>),
                    Listing(<<RedditComment(<<"ann">>,
                                  <<"see", " ">> \o Link("this", "x.io") \o <<"\n", "bye">>,
                                  Listing(<<RedditComment(<<"bob">>,
                                      <<"yes", " ", "http://", "y.io">>, JEmptyStr)>>))>>)>>)
      [] name = "nochildren" -> JList(<<JDict([data |-> JDict(EmptyMap)])>>)
      [] name = "badpost" -> JList(<<JDict([data |-> JNum(5)]), JDict(EmptyMap)>>)
      [] name = "nodata" -> JList(<<JDict(EmptyMap), JDict(EmptyMap)>>)
      [] OTHER -> JDict(EmptyMap)

RedditDocs == {"thread", "nochildren", "badpost", "object"}

\* convert_reddit_json_to_markdown: always a str
convert_reddit_json_to_markdown(json_string) ==
    IF json_string.k # "json" THEN Text(ErrorParsing)
    ELSE LET json_data == RedditDoc(json_string.v[1])
             post == PostLines(json_data.items[1])
             comments == CommentLines(json_data.items[2])
         IN  IF ~(IsList(json_data) /\ Len(json_data.items) >= 2)
             THEN Text(NoRedditContent)
             ELSE IF post.err \/ comments.err THEN Text(ErrorProcessing)
             ELSE IF post.lines \o comments.lines = <<>> THEN Text(NoRedditContent)
             ELSE Text(Join(post.lines \o comments.lines, <<"\n">>))

(***************************************************************************)
(* HTML -> Markdown (html_to_markdown).  A document is the element tree    *)
(* html5lib.parse gives: an element is [tag, href, text, kids, tail], the  *)
(* tag without its namespace, text and tail strings ("" for None), href    *)
(* the value of the first attribute whose name ends in "href" ("" if none) *)
(***************************************************************************)
Elem(tag, href, text, kids, tail) ==
    [tag |-> tag, href |-> href, text |-> text, kids |-> kids, tail |-> tail]

\* Element.find gave None; also the document of an empty html_content
NoElem == Elem("None", <<>>, <<>>, <<>>, <<>>)

\* elem.itertext(): the text, then for each child its itertext and its tail
RECURSIVE itertext(_)
itertext(elem) ==
    LET RECURSIVE Over(_)
        Over(kids) == IF kids = <<>> THEN <<>>
                      ELSE itertext(kids[1]) \o <<kids[1].tail>> \o Over(Tail(kids))
    IN  <<elem.text>> \o Over(elem.kids)

skip_tags == {"script", "style", "nav", "footer", "header", "aside"}

\* process_element over st = [result, seen_texts].  A link that is emitted
\* returns at once: the children and the tail of the anchor are not processed.
RECURSIVE process_element(_, _, _)
process_element(elem, depth, st) ==
    LET any(texts) == \E n \in 1..Len(texts) : Strip(texts[n]) # <<>>
        should_skip_element == elem.tag \in skip_tags \/ ~any(itertext(elem))
        get_heading_level(tag) ==
            CASE tag = "h1" -> 1 [] tag = "h2" -> 2 [] tag = "h3" -> 3
              [] tag = "h4" -> 4 [] tag = "h5" -> 5 [] tag = "h6" -> 6
              [] OTHER -> 0
        text == Strip(elem.text)
        indent == Repeat(<<" ", " ">>, depth)
        heading_level == get_heading_level(elem.tag)
        prefix == IF heading_level > 0 THEN Repeat(<<"#">>, heading_level) \o <<" ">>
                  ELSE IF elem.tag = "li" THEN <<"*", " ">>
                  ELSE <<>>
        fresh == text # <<>> /\ text \notin st.seen
        linked == /\ elem.tag = "a"
                  /\ elem.href # <<>>
                  /\ Head(elem.href) \notin {"#", "javascript:", "mailto:"}
        shown == CASE elem.tag \in {"strong", "b"} -> <<"**">> \o text \o <<"**">>
                   [] elem.tag \in {"em", "i"} -> <<"*">> \o text \o <<"*">>
                   [] OTHER -> text
        add(s, line, key) == [result |-> Append(s.result, line),
                              seen |-> s.seen \cup {key}]
        RECURSIVE Children(_, _)
        Children(kids, s) == IF kids = <<>> THEN s
                             ELSE Children(Tail(kids),
                                           process_element(kids[1], depth + 1, s))
        withText == IF fresh THEN add(st, indent \o prefix \o shown, shown) ELSE st
        withTail(s, tail) == IF tail # <<>> /\ tail \notin s.seen
                             THEN add(s, indent \o tail, tail)
                             ELSE s
    IN  IF should_skip_element THEN st
        ELSE IF fresh /\ linked
        THEN add(st, indent \o prefix \o <<"[">> \o text \o <<"]", "(">>
                         \o elem.href \o <<")">>, text)
        ELSE withTail(Children(elem.kids, withText), Strip(elem.tail))

\* a or b or c over elements: an Element without children is false, None is false
\* (document.find(".//tag") is the first descendant with the tag, in
\* document order)
main_content(document) ==
    LET RECURSIVE find(_, _)
        find(elem, tag) ==
            LET RECURSIVE First(_)
                First(kids) ==
                    IF kids = <<>> THEN NoElem
                    ELSE IF kids[1].tag = tag THEN kids[1]
                    ELSE LET found == find(kids[1], tag)
                         IN  IF found # NoElem THEN found ELSE First(Tail(kids))
            IN  First(elem.kids)
        true(e) == e # NoElem /\ e.kids # <<>>
        or(a, b, c) == IF true(a) THEN a ELSE IF true(b) THEN b ELSE c
    IN  or(find(document, "main"), find(document, "article"), find(document, "body"))

skip_patterns ==
    {<<"var", " ">>, <<"function()">>, <<".js">>, <<".css">>, <<"google-analytics">>,
     <<"disqus">>, <<"{">>, <<"}">>, <<"undefined">>, <<"null">>, <<"NaN">>,
     <<"cookie">>, <<"privacy", " ", "policy">>,
     <<"terms", " ", "of", " ", "service">>,
     <<"all", " ", "rights", " ", "reserved">>, <<"copyright", " ", "©">>}

\* str.lower() on the atoms of the model that hold upper-case letters
lower(s) ==
    [n \in 1..Len(s) |->
        CASE s[n] = "NaN" -> "nan" [] s[n] = "Privacy" -> "privacy"
          [] s[n] = "Policy" -> "policy" [] s[n] = "Title" -> "title"
          [] s[n] = "Sale" -> "sale" [] s[n] = "Hello" -> "hello"
          [] OTHER -> s[n]]

\* html_to_markdown on the parsed document
html_to_markdown(document) ==
    IF document = NoElem THEN None
    ELSE
    LET root(found) == IF found # NoElem THEN found ELSE document
        noise(line) == \E pattern \in skip_patterns : Contains(pattern, lower(line))
        blank(line) == Strip(line) = <<>>
        filtered(result) == SelectSeq(result, LAMBDA line : ~noise(line))
        walk == process_element(root(main_content(document)), 0,
                                [result |-> <<>>, seen |-> {}])
    IN  Text(Join(SelectSeq(SplitLines(Join(filtered(walk.result), <<"\n">>)),
                            LAMBDA line : ~blank(line)), <<"\n">>))

(***************************************************************************)
(* Fetch backends.  Each takes the outcome of its external call and gives  *)
(* [ret, events]: what the invocation returns (or the exception it raises) *)
(* and the counter events it records, in order.                            *)
(***************************************************************************)
Pages == {"page1", "page2"}

Event(type, status) == [type |-> type, status |-> status]

ErrorEvent(type, error) == [type |-> type, status |-> "error", error |-> error]

\* fetch_direct.  outcome.t: "ok" (2xx, body outcome.text), "status"
\* (raise_for_status raised HTTPStatusError), "transport" (another
\* httpx.HTTPError, a timeout included), "other" (any other exception).
fetch_direct(outcome) ==
    CASE outcome.t = "ok" ->
            [ret |-> outcome.text,
             events |-> <<[type |-> "direct", status |-> "success",
                           status_code |-> outcome.code]>>]
      [] outcome.t = "status" ->
            [ret |-> None,
             events |-> <<[type |-> "direct", status |-> "error", error |-> "http",
                           status_code |-> outcome.code]>>]
      [] outcome.t = "transport" ->
            [ret |-> None, events |-> <<ErrorEvent("direct", "http")>>]
      [] OTHER ->
            [ret |-> None, events |-> <<ErrorEvent("direct", "unknown")>>]

DirectOutcomes ==
    {[t |-> "ok", code |-> 200, text |-> Html(p)] : p \in Pages}
    \cup {[t |-> "ok", code |-> 200, text |-> Text(<<>>)]}
    \cup {[t |-> "status", code |-> c] : c \in {404, 503}}
    \cup {[t |-> "transport"], [t |-> "other"]}

\* Variant in which the missing key escapes the function as its ValueError
SpiderNoKeyRaises == [ret |-> Exc("ValueError"), events |-> <<>>]

\* SPIDER_API_KEY unset: the ValueError raised in the try block is caught by
\* the last handler
SpiderNoKey == [ret |-> None, events |-> <<ErrorEvent("spider", "unknown")>>]

\* fetch_with_spider.  outcome.t: "nokey" (SPIDER_API_KEY unset), "http"
\* (httpx.HTTPError from post or raise_for_status), "badjson" (response.json()
\* raised), "json" (the response parsed to outcome.v).
fetch_with_spider(outcome) ==
    CASE outcome.t = "nokey" -> SpiderNoKey
      [] outcome.t = "http" ->
            [ret |-> None, events |-> <<ErrorEvent("spider", "http")>>]
      [] outcome.t = "badjson" ->
            [ret |-> None, events |-> <<ErrorEvent("spider", "unknown")>>]
      [] OTHER ->
            LET result == outcome.v
            IN  IF ~JTruthy(result) \/ ~IsList(result)
                THEN [ret |-> None, events |-> <<ErrorEvent("spider", "format")>>]
                ELSE IF ~IsDict(result.items[1])
                \* result[0].get raises AttributeError
                THEN [ret |-> None, events |-> <<ErrorEvent("spider", "unknown")>>]
                ELSE IF ~Has(result.items[1], "content") \/ ~JTruthy(result.items[1].fields.content)
                THEN [ret |-> None, events |-> <<ErrorEvent("spider", "empty")>>]
                \* return str(content)
                ELSE [ret |-> IF result.items[1].fields.content.t = "str"
                              THEN StrOf(result.items[1].fields.content)
                              ELSE Text(<<"repr">>),
                      events |-> <<Event("spider", "success")>>]

SpiderOutcomes ==
    {[t |-> "nokey"], [t |-> "http"], [t |-> "badjson"]}
    \cup {[t |-> "json", v |-> j] : j \in
            {JList(<<JDict([content |-> JStr(Html(p))])>>) : p \in Pages}
            \cup {JList(<<>>), JNull, JDict([content |-> JStr(Html("page1"))]),
                  JList(<<JStr(Html("page1"))>>),
                  JList(<<JDict([status |-> JNum(200)])>>),
                  JList(<<JDict([content |-> JStr(Text(<<>>))])>>),
                  JList(<<JDict([content |-> JNull])>>),
                  JList(<<JDict([content |-> JNum(5)])>>)}}

\* fetch_universal over fetch_universal_raw.  outcome.t: "nocreds" (a
\* credential unset: ValueError), "http" (httpx.HTTPError, logged and raised
\* again), "badjson" (response.json() raised JSONDecodeError, turned into
\* ValueError), "json" (the response parsed to outcome.v).  No counter event.
fetch_universal(outcome) ==
    CASE outcome.t = "nocreds" -> [ret |-> Exc("ValueError"), events |-> <<>>]
      [] outcome.t = "http" -> [ret |-> Exc("HTTPError"), events |-> <<>>]
      [] outcome.t = "badjson" -> [ret |-> Exc("ValueError"), events |-> <<>>]
      [] OTHER ->
            LET data == outcome.v
                rs == data.fields.results
                result == rs.items[1]
                content == result.fields.content
                raise(e) == [ret |-> Exc(e), events |-> <<>>]
            IN  IF data.t \in {"num", "null"} THEN raise("TypeError")
                ELSE IF ~IsDict(data) \/ ~Has(data, "results") THEN raise("ValueError")
                ELSE IF ~JTruthy(rs) THEN raise("ValueError")
                ELSE IF rs.t = "num" THEN raise("TypeError")
                \* data["results"][0]: KeyError on a dict is turned into ValueError;
                \* on a str it is a one-character str, which holds no "content"
                ELSE IF ~IsList(rs) THEN raise("ValueError")
                ELSE IF result.t \in {"num", "null"} THEN raise("TypeError")
                ELSE IF ~IsDict(result) \/ ~Has(result, "content") THEN raise("ValueError")
                ELSE IF content.t = "str" THEN [ret |-> StrOf(content), events |-> <<>>]
                ELSE IF ~IsDict(content) THEN raise("ValueError")
                ELSE IF ~Has(content, "html") THEN raise("ValueError")
                ELSE IF content.fields.html.t # "str" THEN raise("ValueError")
                ELSE [ret |-> StrOf(content.fields.html), events |-> <<>>]

\* The texts a universal scrape can return: a page or the text of a JSON document
UniversalResponse(c) == JDict([results |-> JList(<<JDict([content |-> c])>>)])

UniversalShapes(strs) ==
    {[t |-> "nocreds"], [t |-> "http"], [t |-> "badjson"]}
    \cup {[t |-> "json", v |-> UniversalResponse(JStr(c))] : c \in strs}
    \cup {[t |-> "json", v |-> UniversalResponse(JDict([html |-> JStr(c)]))] : c \in strs}
    \cup {[t |-> "json", v |-> j] : j \in
            {JNull, JList(<<>>), JDict([job |-> JNum(1)]),
             JDict([results |-> JList(<<>>)]),
             JDict([results |-> JNum(3)]),
             JDict([results |-> JDict([a |-> JNum(1)])]),
             JDict([results |-> JList(<<JNull>>)]),
             JDict([results |-> JList(<<JDict([status |-> JNum(200)])>>)]),
             UniversalResponse(JNum(7)),
             UniversalResponse(JDict([text |-> JStr(Text(<<"x">>))])),
             UniversalResponse(JDict([html |-> JNull]))}}

\* _convert_transcript_to_text; entries are the texts of the transcript list
_convert_transcript_to_text(texts) ==
    LET transcript_text ==
            Join([n \in 1..Len(texts) |-> Strip(texts[n])], <<".", " ">>)
    IN  IF EndsWith(transcript_text, <<".">>) THEN transcript_text
        ELSE transcript_text \o <<".">>

\* aget_transcript.  outcome.t: "exc" (get_transcript raised), "ok" (it
\* returned the list outcome.v of JSON objects).
aget_transcript(outcome) ==
    IF outcome.t = "exc"
    THEN [ret |-> None, events |-> <<ErrorEvent("youtube", "transcript")>>]
    ELSE LET entries == outcome.v
         IN  IF \E n \in 1..Len(entries) :
                   \/ ~IsDict(entries[n])
                   \/ ~Has(entries[n], "text")
                   \/ entries[n].fields.text.t # "str"
             \* entry["text"].strip() raises, caught
             THEN [ret |-> None, events |-> <<ErrorEvent("youtube", "transcript")>>]
             ELSE [ret |-> Text(_convert_transcript_to_text(
                                    [n \in 1..Len(entries) |-> entries[n].fields.text.sv])),
                   events |-> <<Event("youtube", "success")>>]

Entry(s) == JDict([text |-> JStr(Text(s)), start |-> JNum(0)])

TranscriptOutcomes ==
    {[t |-> "exc"]}
    \cup {[t |-> "ok", v |-> es] : es \in
            {<<Entry(<<"hello", " ", "world">>)>>,
             <<Entry(<<" ", "see", " ", "https://", "x.io">>),
               Entry(<<"[", "a", "]", "(", "b", ")", ".">>)>>,
             <<>>,
             <<JDict([start |-> JNum(0)])>>}}

(***************************************************************************)
(* fetch (single URL).  env gives the outcome of every external call the   *)
(* invocation can make; the result is [ret, calls, events, files]: the     *)
(* value returned, the requests issued in order, the counter events and    *)
(* the debug files written.                                                *)
(***************************************************************************)
Formats == {"html", "markdown", "summary"}

\* save_debug_files: [err, files]
save_debug_files(html, markdown, outcome) ==
    CASE outcome \in {"mkdir", "html"} -> [err |-> TRUE, files |-> {}]
      [] outcome = "md" /\ Truthy(markdown) -> [err |-> TRUE, files |-> {"html"}]
      [] OTHER -> [err |-> FALSE,
                   files |-> IF Truthy(markdown) THEN {"html", "md"} ELSE {"html"}]

\* Variant in which the answer to the diagnostic request is handed back
OnNoContentDiag(use_external, env) ==
    [ret |-> IF ~use_external /\ env.diag.t = "ok" THEN env.diag.text ELSE None,
     calls |-> IF use_external THEN <<>> ELSE <<"diag">>]

\* fetch, lines 214-225: the selected backend gave no content.  A failed direct
\* fetch asks for the page once more, to log its status, and returns None.
OnNoContent(use_external, env) ==
    [ret |-> None, calls |-> IF use_external THEN <<>> ELSE <<"diag">>]

\* fetch, lines 227-245: the content is there
OnContent(content, fmt, sd, env) ==
    LET markdown_content == env.md
        dbg == save_debug_files(content, markdown_content, env.debug)
        dbgHtml == save_debug_files(content, None, env.debug)
    IN  IF fmt \in {"markdown", "summary"} THEN
            IF ~Truthy(markdown_content) THEN [ret |-> None, exc |-> FALSE, files |-> {}]
            ELSE IF sd /\ dbg.err THEN [ret |-> None, exc |-> TRUE, files |-> dbg.files]
            ELSE IF fmt = "summary" THEN
                IF env.summary.t = "exc"
                THEN [ret |-> None, exc |-> TRUE,
                      files |-> IF sd THEN dbg.files ELSE {}]
                ELSE [ret |-> env.summary.text, exc |-> FALSE,
                      files |-> IF sd THEN dbg.files ELSE {}]
            ELSE [ret |-> markdown_content, exc |-> FALSE,
                  files |-> IF sd THEN dbg.files ELSE {}]
        ELSE IF sd /\ dbgHtml.err THEN [ret |-> None, exc |-> TRUE, files |-> dbgHtml.files]
        ELSE [ret |-> content, exc |-> FALSE, files |-> IF sd THEN dbgHtml.files ELSE {}]

\* fetch: the try block, and "except Exception: return None" around it
fetch(url, fmt, sd, use_external, env) ==
    LET b == IF use_external THEN fetch_with_spider(env.spider)
             ELSE fetch_direct(env.direct)
        first == IF use_external THEN "spider" ELSE "direct"
        no == OnNoContent(use_external, env)
        yes == OnContent(b.ret, fmt, sd, env)
    IN  IF ~Truthy(b.ret)
        THEN [ret |-> no.ret, calls |-> <<first>> \o no.calls, events |-> b.events,
              files |-> {}, content |-> b.ret, caught |-> FALSE]
        ELSE [ret |-> IF yes.exc THEN None ELSE yes.ret, calls |-> <<first>>,
              events |-> b.events, files |-> yes.files, content |-> b.ret,
              caught |-> yes.exc]

\* The outcomes one fetch call can meet; those of the requests it does not
\* issue are fixed
DefaultEnv ==
    [direct |-> [t |-> "transport"], spider |-> [t |-> "http"], diag |-> [t |-> "exc"],
     md |-> None, debug |-> "ok", summary |-> [t |-> "exc"]]

\* MarkdownResults: what html_to_markdown can give for a page (None, "" or
\* Markdown text).  DebugOutcomes: where save_debug_files fails, if it does
\* (at mkdir, at the write of the HTML file, at the write of the Markdown file).
FetchEnvs(fmt, sd, use_external) ==
    LET MarkdownResults ==
            {None, Text(<<>>), Text(<<"#", " ", "Title">>),
             Text(<<"read", " ">> \o Link("more", "x.io"))}
        SummaryOutcomes ==
            {[t |-> "ok", text |-> Text(<<"summary">>)],
             [t |-> "ok", text |-> Text(<<"from", " ">> \o Link("source", "x.io"))],
             [t |-> "exc"]}
        DiagOutcomes == {[t |-> "ok", text |-> Html("page1")], [t |-> "exc"]}
        DebugOutcomes == {"ok", "mkdir", "html", "md"}
    IN
    {[direct |-> d, spider |-> sp, diag |-> g, md |-> m, debug |-> dbg, summary |-> su] :
        d \in IF use_external THEN {DefaultEnv.direct} ELSE DirectOutcomes,
        sp \in IF use_external THEN SpiderOutcomes ELSE {DefaultEnv.spider},
        g \in IF use_external THEN {DefaultEnv.diag} ELSE DiagOutcomes,
        m \in IF fmt = "html" THEN {DefaultEnv.md} ELSE MarkdownResults,
        dbg \in IF sd THEN DebugOutcomes ELSE {DefaultEnv.debug},
        su \in IF fmt = "summary" THEN SummaryOutcomes ELSE {DefaultEnv.summary}}

(***************************************************************************)
(* ScrapeCache                                                             *)
(***************************************************************************)
\* Model bounds: the clock runs over 0..MaxTime and the TTL is scaled to it.
MaxTime == 3
CacheTTL == 1

CacheUrls == {"u1", "u2"}
CacheData == {"d1", "d2"}

\* Content of the backing file: absent, not a JSON object of entries (also a
\* truncated write), or the JSON of a map.
Missing == [kind |-> "missing", map |-> EmptyMap]
Corrupt == [kind |-> "corrupt", map |-> EmptyMap]

JsonFile(m) == [kind |-> "json", map |-> m]

NoOp == [op |-> "none"]
NoSet == [set |-> FALSE]

CacheEntry(data, timestamp) == [data |-> data, timestamp |-> timestamp]

\* ScrapeCache._load_cache: a missing file leaves the empty map of __init__,
\* an unreadable or invalid one is caught and gives the empty map.
LoadCache(f) == IF f.kind = "json" THEN f.map ELSE EmptyMap

\* Variant of _save_cache that adds the entries of the map to those of the file
SaveCacheAppend(c, f, outcome) ==
    IF outcome = "ok"
    THEN [kind |-> "json",
          map |-> [x \in DOMAIN f.map \cup DOMAIN c |->
                      IF x \in DOMAIN c THEN c[x] ELSE f.map[x]]]
    ELSE f

\* ScrapeCache._save_cache: write_text truncates and rewrites the whole file;
\* a failure is swallowed.  outcome: "ok", "unchanged" (dumps or open failed),
\* "partial" (the write failed after truncation).
SaveCache(c, f, outcome) ==
    CASE outcome = "ok" -> JsonFile(c)
      [] outcome = "unchanged" -> f
      [] OTHER -> Corrupt

SaveOutcomes == {"ok", "unchanged", "partial"}

InitialFiles ==
    {Missing, Corrupt} \cup
    {JsonFile(m) : m \in UNION {[S -> [data : CacheData, timestamp : {0}]] :
                                    S \in SUBSET CacheUrls}}

\* ScrapeCache.__init__ (run at import for the global scrape_cache): the
\* directory is created outside any try, so a failing mkdir raises and leaves
\* no cache object; otherwise the map is what _load_cache gives.
CacheInit ==
    /\ enabled \in BOOLEAN
    /\ file \in InitialFiles
    /\ now = 0
    /\ \E mkdir \in {"ok", "error"} :
          IF mkdir = "ok"
          THEN cache = LoadCache(file) /\ lastOp = NoOp
          ELSE cache = EmptyMap /\ lastOp = [op |-> "init", raised |-> TRUE]
    /\ lastSet = [u \in CacheUrls |-> NoSet]
    /\ expGets = [u \in CacheUrls |-> 0]

\* Variant of the expiry test in which an entry aged exactly the TTL is stale
ExpiredAtTTL(age) == age >= CacheTTL

\* The expiry test of get
Expired(age) == age > CacheTTL

\* Variant in which the configuration flag is not consulted
DisabledNever == FALSE

\* get and set are methods of a constructed ScrapeCache
Constructed == lastOp.op # "init"

\* if not ENABLE_CACHE: the guard of get and of set
Disabled == ~enabled

\* ScrapeCache.get
Get(url) ==
    /\ Constructed
    /\ IF Disabled THEN
          /\ lastOp' = [op |-> "get", url |-> url, prior |-> expGets[url],
                        ret |-> Null, now |-> now,
                        had |-> url \in DOMAIN cache, save |-> "none"]
          /\ UNCHANGED <<cache, file>>
       ELSE IF url \notin DOMAIN cache THEN
          /\ lastOp' = [op |-> "get", url |-> url, prior |-> expGets[url],
                        ret |-> Null, now |-> now,
                        had |-> FALSE, save |-> "none"]
          /\ UNCHANGED <<cache, file>>
       ELSE IF Expired(now - cache[url].timestamp) THEN
          \E outcome \in SaveOutcomes :
              /\ cache' = Del(cache, url)
              /\ file' = SaveCache(cache', file, outcome)
              /\ lastOp' = [op |-> "get", url |-> url, prior |-> expGets[url],
                        ret |-> Null, now |-> now,
                            had |-> TRUE, save |-> outcome]
       ELSE
          /\ lastOp' = [op |-> "get", url |-> url, prior |-> expGets[url],
                        ret |-> cache[url].data,
                        now |-> now, had |-> TRUE, save |-> "none"]
          /\ UNCHANGED <<cache, file>>
    /\ expGets' = IF lastSet[url] # NoSet /\ now - lastSet[url].timestamp > CacheTTL
                  THEN [expGets EXCEPT ![url] = 1] ELSE expGets
    /\ UNCHANGED <<enabled, now, lastSet>>
    /\ UNCHANGED <<backendVars, fetchVars, batchVars, funcVars, peer, agent>>

\* ScrapeCache.set
Set(url, data) ==
    /\ Constructed
    /\ IF Disabled THEN
          /\ lastOp' = [op |-> "set", url |-> url, prior |-> expGets[url],
                        ret |-> Null, now |-> now,
                        had |-> url \in DOMAIN cache, save |-> "none"]
          /\ UNCHANGED <<cache, file, lastSet, expGets>>
       ELSE
          \E outcome \in SaveOutcomes :
              /\ cache' = Put(cache, url, CacheEntry(data, now))
              /\ file' = SaveCache(cache', file, outcome)
              /\ lastOp' = [op |-> "set", url |-> url, prior |-> expGets[url],
                        ret |-> Null, now |-> now,
                            had |-> url \in DOMAIN cache, save |-> outcome]
              /\ lastSet' = [lastSet EXCEPT ![url] =
                               [set |-> TRUE, data |-> data, timestamp |-> now]]
              /\ expGets' = [expGets EXCEPT ![url] = 0]
    /\ UNCHANGED <<enabled, now>>
    /\ UNCHANGED <<backendVars, fetchVars, batchVars, funcVars, peer, agent>>

\* time.time() advances between calls
Tick ==
    /\ now < MaxTime
    /\ now' = now + 1
    /\ UNCHANGED <<enabled, cache, file, lastOp, lastSet, expGets>>
    /\ UNCHANGED <<backendVars, fetchVars, batchVars, funcVars, peer, agent>>

CacheNext ==
    \/ \E url \in CacheUrls : Get(url)
    \/ \E url \in CacheUrls, data \in CacheData : Set(url, data)
    \/ Tick

(***************************************************************************)
(* Two processes on one cache file: this one and a peer, each with its own *)
(* ScrapeCache, both constructed (file loaded) before either one sets      *)
(***************************************************************************)
SharedInit ==
    /\ enabled = TRUE
    /\ file \in InitialFiles
    /\ cache = LoadCache(file)
    /\ peer = [cache |-> LoadCache(file), loaded |-> LoadCache(file),
               sets |-> {}, save |-> "none"]
    /\ now = 0
    /\ lastOp = NoOp
    /\ lastSet = [u \in CacheUrls |-> NoSet]
    /\ expGets = [u \in CacheUrls |-> 0]

\* ScrapeCache.set in the peer process: its own map, the shared file
PeerSet(url, data) ==
    /\ ~Disabled
    /\ \E outcome \in SaveOutcomes :
          LET written == Put(peer.cache, url, CacheEntry(data, now))
          IN  /\ peer' = [peer EXCEPT !.cache = written, !.sets = @ \cup {url},
                                      !.save = outcome]
              /\ file' = SaveCache(written, file, outcome)
    /\ UNCHANGED <<enabled, cache, now, lastOp, lastSet, expGets>>
    /\ UNCHANGED <<backendVars, fetchVars, batchVars, funcVars, agent>>

SharedNext ==
    \/ \E url \in CacheUrls, data \in CacheData : Set(url, data)
    \/ \E url \in CacheUrls, data \in CacheData : PeerSet(url, data)

(***************************************************************************)
(* analyze_product(url): one call under @retry(stop_after_attempt(5)), on   *)
(* the global scrape_cache.  agent holds the position of the call (pc), the *)
(* attempt number, the calls of scrape_product made and succeeded, the      *)
(* calls of scrape_cache.set, the time of the last set that stored the      *)
(* scraped data (-1: none), and the age that entry had at each later call   *)
(* of scrape_product.                                                       *)
(***************************************************************************)
MaxAttempts == 5

AgentUrl == "u1"

\* product_data.model_dump(): a dict with a "product" dict that has "title".
\* Of the data values of the model, d1 is such a dump and d2 is a dict
\* without a titled product.
Scraped == "d1"

AgentInit ==
    /\ enabled \in BOOLEAN
    /\ file \in InitialFiles
    /\ cache = LoadCache(file)
    /\ now = 0
    /\ lastOp = NoOp
    /\ lastSet = [u \in CacheUrls |-> NoSet]
    /\ expGets = [u \in CacheUrls |-> 0]
    /\ agent = [pc |-> "get", attempt |-> 1, scrapes |-> 0, okScrapes |-> 0,
                sets |-> 0, cachedTime |-> -1, rescrapeAges |-> {}]

\* tenacity: the exception left the function.  Another attempt while fewer
\* than MaxAttempts were made; after the last one the call fails.
Retry(a) ==
    IF a.attempt < MaxAttempts
    THEN [a EXCEPT !.pc = "get", !.attempt = @ + 1]
    ELSE [a EXCEPT !.pc = "failed"]

\* An attempt begins: scrape_cache.get(url) and the check of what it gave.
\* Data with a titled product goes to the reviews; otherwise scrape_product
\* is called.
CheckCache ==
    /\ agent.pc = "get"
    /\ LET had == ~Disabled /\ AgentUrl \in DOMAIN cache
           stale == had /\ Expired(now - cache[AgentUrl].timestamp)
           cached_data == IF had /\ ~stale THEN cache[AgentUrl].data ELSE Null
           \* "product" is there, a dict, and holds "title"
           hit == cached_data # Null /\ cached_data = Scraped
       IN  /\ IF stale
              THEN \E outcome \in SaveOutcomes :
                       /\ cache' = Del(cache, AgentUrl)
                       /\ file' = SaveCache(cache', file, outcome)
              ELSE UNCHANGED <<cache, file>>
           /\ agent' =
                 IF hit THEN [agent EXCEPT !.pc = "review"]
                 ELSE [agent EXCEPT
                          !.pc = "scrape",
                          !.scrapes = @ + 1,
                          !.rescrapeAges =
                              IF agent.cachedTime >= 0
                              THEN @ \cup {now - agent.cachedTime} ELSE @]
    /\ UNCHANGED <<enabled, now, lastOp, lastSet, expGets>>
    /\ UNCHANGED <<backendVars, fetchVars, batchVars, funcVars, peer>>

\* await scrape_product(url) ended: it raised (the exception is re-raised),
\* or it returned and the dump is handed to scrape_cache.set
ScrapeDone ==
    /\ agent.pc = "scrape"
    /\ \E result \in {"ok", "raise"} :
          IF result = "raise"
          THEN /\ agent' = Retry(agent)
               /\ UNCHANGED <<cache, file>>
          ELSE IF Disabled
          THEN /\ agent' = [agent EXCEPT !.pc = "review", !.okScrapes = @ + 1,
                                         !.sets = @ + 1]
               /\ UNCHANGED <<cache, file>>
          ELSE \E outcome \in SaveOutcomes :
                   /\ cache' = Put(cache, AgentUrl, CacheEntry(Scraped, now))
                   /\ file' = SaveCache(cache', file, outcome)
                   /\ agent' = [agent EXCEPT !.pc = "review", !.okScrapes = @ + 1,
                                             !.sets = @ + 1, !.cachedTime = now]
    /\ UNCHANGED <<enabled, now, lastOp, lastSet, expGets>>
    /\ UNCHANGED <<backendVars, fetchVars, batchVars, funcVars, peer>>

\* generate_baseline_review and generate_full_review ended: both returned, or
\* one of them raised
ReviewDone ==
    /\ agent.pc = "review"
    /\ \E result \in {"ok", "raise"} :
          agent' = IF result = "ok" THEN [agent EXCEPT !.pc = "done"] ELSE Retry(agent)
    /\ UNCHANGED <<cacheVars, backendVars, fetchVars, batchVars, funcVars, peer>>

\* time.time() advances while the call awaits
AgentTick ==
    /\ agent.pc \in {"get", "scrape", "review"}
    /\ Tick

AgentNext == CheckCache \/ ScrapeDone \/ ReviewDone \/ AgentTick

(***************************************************************************)
(* The backends invoked on their own                                       *)
(***************************************************************************)
Backends == {"direct", "spider", "universal", "youtube"}

Ran(outcome, r) == [ran |-> TRUE, how |-> outcome.t, ret |-> r.ret, events |-> r.events]

UniversalOutcomes ==
    UniversalShapes({Html(pg) : pg \in Pages} \cup {JsonText(d) : d \in RedditDocs})

BackendInit ==
    backendRun = [b \in Backends |->
                     [ran |-> FALSE, how |-> "never", ret |-> None, events |-> <<>>]]

RunDirect ==
    /\ \E o \in DirectOutcomes :
         backendRun' = [backendRun EXCEPT !["direct"] = Ran(o, fetch_direct(o))]
    /\ UNCHANGED <<cacheVars, fetchVars, batchVars, funcVars, peer, agent>>

RunSpider ==
    /\ \E o \in SpiderOutcomes :
         backendRun' = [backendRun EXCEPT !["spider"] = Ran(o, fetch_with_spider(o))]
    /\ UNCHANGED <<cacheVars, fetchVars, batchVars, funcVars, peer, agent>>

RunUniversal ==
    /\ \E o \in UniversalOutcomes :
         backendRun' = [backendRun EXCEPT !["universal"] = Ran(o, fetch_universal(o))]
    /\ UNCHANGED <<cacheVars, fetchVars, batchVars, funcVars, peer, agent>>

RunTranscript ==
    /\ \E o \in TranscriptOutcomes :
         backendRun' = [backendRun EXCEPT !["youtube"] = Ran(o, aget_transcript(o))]
    /\ UNCHANGED <<cacheVars, fetchVars, batchVars, funcVars, peer, agent>>

BackendNext == RunDirect \/ RunSpider \/ RunUniversal \/ RunTranscript

(***************************************************************************)
(* fetch called on its own                                                 *)
(***************************************************************************)
FetchInit == fetchRun = NoOp

DoFetch ==
    /\ fetchRun = NoOp
    /\ \E url \in Urls, fmt \in Formats, sd \in BOOLEAN, ext \in BOOLEAN :
         \E env \in FetchEnvs(fmt, sd, ext) :
             fetchRun' = [op |-> "fetch", url |-> url, fmt |-> fmt, sd |-> sd,
                          ext |-> ext, env |-> env,
                          out |-> fetch(url, fmt, sd, ext, env)]
    /\ UNCHANGED <<cacheVars, backendVars, batchVars, funcVars, peer, agent>>

FetchNext == DoFetch

(***************************************************************************)
(* fetch_batch                                                             *)
(***************************************************************************)
\* Model bounds: the URL lists of length <= MaxUrls, max_concurrent <= MaxConcurrent
MaxUrls == 2
MaxConcurrent == 2

\* One failing Reddit URL and four others, over three windows of two
BatchExample == <<UrlReddit, UrlGeneric, UrlGeneric2, UrlYoutuBe, UrlWatch>>

\* What each kind of call can return to gather
TranscriptReturns == {aget_transcript(o).ret : o \in TranscriptOutcomes}

UniversalReturns == {fetch_universal(o).ret : o \in UniversalOutcomes}

FetchReturns ==
    [u \in Urls, fmt \in Formats, sd \in BOOLEAN, ext \in BOOLEAN |->
        {fetch(u, fmt, sd, ext, env).ret : env \in FetchEnvs(fmt, sd, ext)}]

\* Variant in which all the remaining URLs make one window
WindowAll(list, start, size) == SubSeq(list, start + 1, Len(list))

\* batch = urls[i : i + max_concurrent]
Window(list, start, size) ==
    SubSeq(list, start + 1, IF start + size < Len(list) THEN start + size ELSE Len(list))

\* The call fetch_batch appends to tasks for url (lines 477-489)
CallFor(url) ==
    LET youtube_id == extract_youtube_id(url)
    IN  IF Truthy(youtube_id) THEN [kind |-> "youtube", arg |-> youtube_id.v]
        ELSE IF Contains(RedditCom, url)
             THEN [kind |-> "reddit", arg |-> convert_reddit_url_to_json(url)]
             ELSE [kind |-> "fetch", arg |-> url]

\* ord: the position of the call among the completions of its window (0 while
\* it runs)
Task(url) ==
    [url |-> url, kind |-> CallFor(url).kind, arg |-> CallFor(url).arg,
     st |-> "run", res |-> None, ord |-> 0]

\* await asyncio.gather(*tasks, return_exceptions=True) has returned
AllDone(ts) == \A n \in 1..Len(ts) : ts[n].st = "done"

\* Variant of gather without return_exceptions: the first exception propagates
GatherPropagate(ts) ==
    [raised |-> \E n \in 1..Len(ts) : IsException(ts[n].res),
     results |-> [n \in 1..Len(ts) |-> ts[n].res]]

\* Variant of gather that hands the results back in completion order
GatherCompletionOrder(ts) ==
    [raised |-> FALSE,
     results |-> [n \in 1..Len(ts) |->
                     ts[CHOOSE m \in 1..Len(ts) : ts[m].ord = n].res]]

\* asyncio.gather(*tasks, return_exceptions=True): the results in task order,
\* a raised exception standing as the result of its call
Gather(ts) == [raised |-> FALSE, results |-> [n \in 1..Len(ts) |-> ts[n].res]]

\* Variant in which every string result is sanitized, whatever the format
MapResultSanitizeAll(url, result, fmt) ==
    IF IsException(result) THEN None
    ELSE IF Contains(RedditCom, url) /\ IsStr(result)
         THEN sanitize_markdown_links(convert_reddit_json_to_markdown(result))
    ELSE IF IsStr(result) THEN sanitize_markdown_links(result)
    ELSE result

\* Variant in which Reddit output is stored as the converter gave it
MapResultUnsanitized(url, result, fmt) ==
    IF IsException(result) THEN None
    ELSE IF Contains(RedditCom, url) /\ IsStr(result)
         THEN convert_reddit_json_to_markdown(result)
    ELSE IF IsStr(result) /\ fmt = "markdown" THEN sanitize_markdown_links(result)
    ELSE result

\* Variant in which the result of the call is stored as it came
MapResultRaw(url, result, fmt) == IF IsException(result) THEN None ELSE result

\* The value stored for url, from the result of its call (lines 496-513)
MapResult(url, result, fmt) ==
    IF IsException(result) THEN None
    ELSE IF Contains(RedditCom, url) /\ IsStr(result)
         THEN sanitize_markdown_links(convert_reddit_json_to_markdown(result))
    ELSE IF IsStr(result) /\ fmt = "markdown" THEN sanitize_markdown_links(result)
    ELSE result

\* Variant in which a URL already in the mapping keeps its first value
StoreFirst(mapping, url, value) ==
    IF url \in DOMAIN mapping THEN mapping ELSE Put(mapping, url, value)

\* results[url] = value
Store(mapping, url, value) == Put(mapping, url, value)

\* for url, result in zip(batch, batch_results)
RECURSIVE MapWindow(_, _, _, _)
MapWindow(mapping, ts, rs, fmt) ==
    IF ts = <<>> \/ rs = <<>> THEN mapping
    ELSE MapWindow(Store(mapping, ts[1].url, MapResult(ts[1].url, rs[1], fmt)),
                   Tail(ts), Tail(rs), fmt)

BatchInit ==
    /\ urls \in UNION {[1..n -> Urls] : n \in 0..MaxUrls} \cup {BatchExample}
    /\ output_format \in Formats
    /\ save_debug \in BOOLEAN
    /\ use_external_crawler \in BOOLEAN
    /\ max_concurrent \in {-1, 0} \cup 1..MaxConcurrent
    /\ bpc = "loop"
    /\ i = 0
    /\ tasks = <<>>
    /\ results = EmptyMap
    /\ calls = <<>>
    /\ running = {}
    /\ windows = 0
    /\ peak = 0

\* range(0, len(urls), 0) raises ValueError
BatchRaise ==
    /\ bpc = "loop"
    /\ max_concurrent = 0
    /\ bpc' = "raised"
    /\ UNCHANGED <<urls, output_format, save_debug, use_external_crawler,
                   max_concurrent, i, tasks, results, calls, running, windows, peak>>
    /\ UNCHANGED <<cacheVars, backendVars, fetchVars, funcVars, peer, agent>>

\* The next window: its calls are created and handed to gather
Dispatch ==
    /\ bpc = "loop"
    /\ max_concurrent > 0
    /\ i < Len(urls)
    /\ LET batch == Window(urls, i, max_concurrent)
       IN  /\ tasks' = [n \in 1..Len(batch) |-> Task(batch[n])]
           /\ running' = running \cup {i + n : n \in 1..Len(batch)}
    /\ windows' = windows + 1
    /\ peak' = IF peak >= Cardinality(running') THEN peak ELSE Cardinality(running')
    /\ bpc' = "gather"
    /\ UNCHANGED <<urls, output_format, save_debug, use_external_crawler,
                   max_concurrent, i, results, calls>>
    /\ UNCHANGED <<cacheVars, backendVars, fetchVars, funcVars, peer, agent>>

\* One call of the window ends, in any order: it returns r or raises it
Complete(n) ==
    /\ bpc = "gather"
    /\ n \in 1..Len(tasks)
    /\ tasks[n].st = "run"
    /\ \E r \in CASE tasks[n].kind = "youtube" -> TranscriptReturns
                  [] tasks[n].kind = "reddit" -> UniversalReturns
                  [] OTHER -> FetchReturns[tasks[n].url, output_format, save_debug,
                                           use_external_crawler] :
          tasks' = [tasks EXCEPT ![n] =
                      [@ EXCEPT !.st = "done", !.res = r,
                                !.ord = 1 + Cardinality({m \in 1..Len(tasks) :
                                                            tasks[m].st = "done"})]]
    /\ running' = running \ {i + n}
    /\ UNCHANGED <<urls, output_format, save_debug, use_external_crawler,
                   max_concurrent, bpc, i, results, calls, windows, peak>>
    /\ UNCHANGED <<cacheVars, backendVars, fetchVars, funcVars, peer, agent>>

\* gather returns and the results of the window are mapped to its URLs
MapResults ==
    /\ bpc = "gather"
    /\ AllDone(tasks)
    /\ LET g == Gather(tasks)
       IN  IF g.raised
           THEN /\ bpc' = "raised"
                /\ UNCHANGED <<i, tasks, results, calls>>
           ELSE /\ results' = MapWindow(results, tasks, g.results, output_format)
                /\ calls' = calls \o [n \in 1..Len(tasks) |->
                                        [url |-> tasks[n].url, kind |-> tasks[n].kind,
                                         arg |-> tasks[n].arg, res |-> tasks[n].res,
                                         ord |-> tasks[n].ord,
                                         stored |-> MapResult(tasks[n].url, g.results[n],
                                                              output_format)]]
                /\ i' = i + max_concurrent
                /\ tasks' = <<>>
                /\ bpc' = "loop"
    /\ UNCHANGED <<urls, output_format, save_debug, use_external_crawler,
                   max_concurrent, running, windows, peak>>
    /\ UNCHANGED <<cacheVars, backendVars, fetchVars, funcVars, peer, agent>>

\* The window loop is over: return results
BatchReturn ==
    /\ bpc = "loop"
    /\ \/ max_concurrent < 0
       \/ max_concurrent > 0 /\ i >= Len(urls)
    /\ bpc' = "done"
    /\ UNCHANGED <<urls, output_format, save_debug, use_external_crawler,
                   max_concurrent, i, tasks, results, calls, running, windows, peak>>
    /\ UNCHANGED <<cacheVars, backendVars, fetchVars, funcVars, peer, agent>>

BatchNext ==
    \/ BatchRaise
    \/ Dispatch
    \/ \E n \in 1..MaxConcurrent : Complete(n)
    \/ MapResults
    \/ BatchReturn

(***************************************************************************)
(* The converters and URL helpers called on their own: html_to_markdown,   *)
(* convert_reddit_json_to_markdown, extract_youtube_id and                 *)
(* convert_reddit_url_to_json (applied again to its own output)            *)
(***************************************************************************)
\* Model bound: applications of convert_reddit_url_to_json, or of
\* sanitize_markdown_links, in a row
MaxApply == 2

\* Model bound: pieces of a Markdown string given to sanitize_markdown_links
MaxPieces == 4

Input(fn, document, url, json, markdown) ==
    [fn |-> fn, document |-> document, url |-> url, json |-> json,
     markdown |-> markdown]

\* Parsed pages: <html><head></head><body>...</body></html>
Document(kids) ==
    Elem("html", <<>>, <<>>,
         <<Elem("head", <<>>, <<>>, <<>>, <<>>), Elem("body", <<>>, <<>>, kids, <<>>)>>,
         <<>>)

\* The sample page: nav "skip", article with h1 "Title" and p "Hello " + link
SamplePage ==
    Document(<<Elem("nav", <<>>, <<"skip">>, <<>>, <<>>),
               Elem("article", <<>>, <<>>,
                    <<Elem("h1", <<>>, <<"Title">>, <<>>, <<>>),
                      Elem("p", <<>>, <<"Hello", " ">>,
                           <<Elem("a", <<"https://", "x.com">>, <<"world">>, <<>>, <<>>)>>,
                           <<>>)>>,
                    <<>>)>>)

\* The inputs.  Pages: the sample page, two elements without children (a
\* <main> that holds text only included), or one inside two containers with
\* or without a paragraph after them.  URLs for
\* extract_youtube_id: a watch, a short and a generic prefix followed by up to
\* three atoms.  URLs for convert_reddit_url_to_json: up to four atoms.  Markdown
\* for sanitize_markdown_links: up to MaxPieces pieces in a row, each a
\* bracket, a parenthesised path, a word, a space, a bare URL or a whole link.
FuncInit ==
    LET texts == {<<>>, <<"Sale">>, <<" ", "Sale", "\n">>, <<"NaN">>,
                  <<"Privacy", " ", "Policy">>}
        tails == {<<>>, <<"Sale">>}
        leaves == {Elem(t, <<>>, x, <<>>, tl) :
                      t \in {"p", "h2", "li", "b", "em", "a", "nav", "main"},
                      x \in texts, tl \in tails}
                  \cup {Elem("a", h, x, <<>>, tl) :
                           h \in {<<"https://", "x.com">>, <<"#", "top">>},
                           x \in texts, tl \in tails}
        seconds == {Elem(t, <<>>, x, <<>>, <<>>) :
                       t \in {"p", "b", "script"},
                       x \in {<<"Sale">>, <<"see", " ", "app", ".js">>}}
                   \cup {Elem("a", <<"https://", "x.com">>, <<"Sale">>, <<>>, <<>>)}
        after == {<<>>, <<Elem("p", <<>>, <<"Body">>, <<>>, <<>>)>>}
        HtmlDocuments ==
            {SamplePage, NoElem}
            \cup {Document(<<a, b>>) : a \in leaves, b \in seconds}
            \cup {Document(<<Elem(outer, <<>>, <<>>,
                                  <<Elem(inner, <<>>, <<>>, <<leaf>>, <<>>)>>, <<>>)>>
                           \o rest) :
                     outer \in {"div", "article", "main", "aside", "header"},
                     inner \in {"article", "main", "p"},
                     leaf \in leaves, rest \in after}
        atoms == {"abc123", "&", "t=5", "v=", "re", "/"}
        YoutubeInputs ==
            {prefix \o suffix :
                prefix \in {<<"https:", "/", "/", "www.", "youtube.com", "/", "watch?", "v=">>,
                            <<"https:", "/", "/", "youtu.be", "/">>,
                            <<"https:", "/", "/", "x.io", "/">>},
                suffix \in UNION {[1..n -> atoms] : n \in 0..3}}
        RewriteInputs ==
            UNION {[1..n -> {"https://reddit.com/r/t", "/", ".json", "?x=1"}] : n \in 0..4}
        pieces == {<<"[">>, <<"]">>, <<"(", "/y", ")">>, <<"a">>, <<" ">>,
                   <<"http://", "b">>, <<"[", "a", "]", "(", "/x", ")">>,
                   Link("a", "x.io")}
        MarkdownInputs ==
            {Join(ps, <<>>) : ps \in UNION {[1..n -> pieces] : n \in 0..MaxPieces}}
    IN  /\ input \in {Input("html_to_markdown", d, <<>>, None, None) : d \in HtmlDocuments}
                     \cup {Input("convert_reddit_json_to_markdown", NoElem, <<>>, j, None) :
                              j \in {JsonText(d) : d \in RedditDocs \cup {"nodata"}}
                                    \cup {Html(pg) : pg \in Pages} \cup {Text(<<>>)}}
                     \cup {Input("extract_youtube_id", NoElem, u, None, None) : u \in YoutubeInputs}
                     \cup {Input("convert_reddit_url_to_json", NoElem, u, None, None) :
                              u \in RewriteInputs}
                     \cup {Input("sanitize_markdown_links", NoElem, <<>>, None, Text(md)) :
                              md \in MarkdownInputs}
        /\ outputs = <<>>

FuncIdle == input = Input("none", NoElem, <<>>, None, None) /\ outputs = <<>>

ConvertHtml ==
    /\ input.fn = "html_to_markdown"
    /\ outputs = <<>>
    /\ outputs' = <<html_to_markdown(input.document)>>
    /\ UNCHANGED <<input, cacheVars, backendVars, fetchVars, batchVars, peer, agent>>

ConvertReddit ==
    /\ input.fn = "convert_reddit_json_to_markdown"
    /\ outputs = <<>>
    /\ outputs' = <<convert_reddit_json_to_markdown(input.json)>>
    /\ UNCHANGED <<input, cacheVars, backendVars, fetchVars, batchVars, peer, agent>>

ExtractId ==
    /\ input.fn = "extract_youtube_id"
    /\ outputs = <<>>
    /\ outputs' = <<extract_youtube_id(input.url)>>
    /\ UNCHANGED <<input, cacheVars, backendVars, fetchVars, batchVars, peer, agent>>

\* convert_reddit_url_to_json, on the URL and then on what it returned
RewriteUrl ==
    /\ input.fn = "convert_reddit_url_to_json"
    /\ Len(outputs) < MaxApply
    /\ outputs' = Append(outputs,
                         Text(convert_reddit_url_to_json(
                                  IF outputs = <<>> THEN input.url
                                  ELSE outputs[Len(outputs)].v)))
    /\ UNCHANGED <<input, cacheVars, backendVars, fetchVars, batchVars, peer, agent>>

\* sanitize_markdown_links, on the Markdown and then on what it returned
Sanitize ==
    /\ input.fn = "sanitize_markdown_links"
    /\ Len(outputs) < MaxApply
    /\ outputs' = Append(outputs,
                         sanitize_markdown_links(IF outputs = <<>> THEN input.markdown
                                                 ELSE outputs[Len(outputs)]))
    /\ UNCHANGED <<input, cacheVars, backendVars, fetchVars, batchVars, peer, agent>>

FuncNext == ConvertHtml \/ ConvertReddit \/ ExtractId \/ RewriteUrl \/ Sanitize

(***************************************************************************)
(* Specifications: each subsystem runs with the others at rest             *)
(***************************************************************************)
CacheIdle ==
    /\ enabled = TRUE
    /\ file = Missing
    /\ cache = EmptyMap
    /\ now = 0
    /\ lastOp = NoOp
    /\ lastSet = [u \in CacheUrls |-> NoSet]
    /\ expGets = [u \in CacheUrls |-> 0]

BatchIdle ==
    /\ urls = <<>>
    /\ output_format = "markdown"
    /\ save_debug = TRUE
    /\ use_external_crawler = FALSE
    /\ max_concurrent = 1
    /\ bpc = "idle"
    /\ i = 0
    /\ tasks = <<>>
    /\ results = EmptyMap
    /\ calls = <<>>
    /\ running = {}
    /\ windows = 0
    /\ peak = 0

\* No second process, no analyze_product call
PeerIdle == peer = [cache |-> EmptyMap, loaded |-> EmptyMap, sets |-> {}, save |-> "none"]

AgentIdle == agent = [pc |-> "idle"]

InitCache ==
    CacheInit /\ BackendInit /\ FetchInit /\ BatchIdle /\ FuncIdle /\ PeerIdle /\ AgentIdle

SpecCache == InitCache /\ [][CacheNext]_vars

InitShared ==
    SharedInit /\ BackendInit /\ FetchInit /\ BatchIdle /\ FuncIdle /\ AgentIdle

SpecShared == InitShared /\ [][SharedNext]_vars

InitBackend ==
    CacheIdle /\ BackendInit /\ FetchInit /\ BatchIdle /\ FuncIdle /\ PeerIdle /\ AgentIdle

SpecBackend == InitBackend /\ [][BackendNext]_vars

InitFetch ==
    CacheIdle /\ BackendInit /\ FetchInit /\ BatchIdle /\ FuncIdle /\ PeerIdle /\ AgentIdle

SpecFetch == InitFetch /\ [][FetchNext]_vars

InitBatch ==
    CacheIdle /\ BackendInit /\ FetchInit /\ BatchInit /\ FuncIdle /\ PeerIdle /\ AgentIdle

SpecBatch == InitBatch /\ [][BatchNext]_vars

InitFunc ==
    CacheIdle /\ BackendInit /\ FetchInit /\ BatchIdle /\ FuncInit /\ PeerIdle /\ AgentIdle

SpecFunc == InitFunc /\ [][FuncNext]_vars

InitAgent ==
    AgentInit /\ BackendInit /\ FetchInit /\ BatchIdle /\ FuncIdle /\ PeerIdle

SpecAgent == InitAgent /\ [][AgentNext]_vars

(***************************************************************************)
(* Properties of ScrapeCache, checked under SpecCache                      *)
(***************************************************************************)
\* The entry of the last get, as the last set(url, .) of this run left it
LastSetOfGet == lastSet[lastOp.url]

GetAfterSet == enabled /\ lastOp.op = "get" /\ LastSetOfGet # NoSet

AgeAtGet == lastOp.now - LastSetOfGet.timestamp

\* C1: with caching enabled, a get(url) issued while now - timestamp <= CACHE_TTL,
\* timestamp being the time of the last set(url, d), returns d (age equal to the
\* TTL included), whatever was done to other URLs since.
C1_FreshGetReturnsData ==
    (GetAfterSet /\ AgeAtGet <= CacheTTL) => lastOp.ret = LastSetOfGet.data

\* A get at age exactly the TTL that returned the data, the other URL having
\* been set after this one
C1_Witness ==
    /\ GetAfterSet
    /\ AgeAtGet = CacheTTL
    /\ lastOp.ret = LastSetOfGet.data
    /\ \E other \in CacheUrls \ {lastOp.url} :
          /\ lastSet[other] # NoSet
          /\ lastSet[other].timestamp > LastSetOfGet.timestamp

\* C2: with caching enabled, a get(url) issued when now - timestamp > CACHE_TTL,
\* timestamp being the time of the last set(url, .), returns null and leaves url
\* out of the map; the first such get finds the entry, still as set wrote it,
\* and saves the map (the file is the map when the write succeeds); until then
\* the entry is exactly what set stored, no get having refreshed it.
C2_StaleGetRemoves ==
    /\ (GetAfterSet /\ AgeAtGet > CacheTTL) =>
          /\ lastOp.ret = Null
          /\ lastOp.url \notin DOMAIN cache
          /\ lastOp.prior = 0 =>
                /\ lastOp.had
                /\ lastOp.save \in SaveOutcomes
                /\ lastOp.save = "ok" => file = JsonFile(cache)
          /\ lastOp.prior > 0 => ~lastOp.had /\ lastOp.save = "none"
    /\ enabled =>
          \A u \in CacheUrls :
              (lastSet[u] # NoSet /\ expGets[u] = 0) =>
                  /\ u \in DOMAIN cache
                  /\ cache[u] = CacheEntry(lastSet[u].data, lastSet[u].timestamp)

\* The first get past the TTL: null, entry gone, file rewritten
C2_Witness ==
    /\ GetAfterSet
    /\ AgeAtGet > CacheTTL
    /\ lastOp.prior = 0
    /\ lastOp.ret = Null
    /\ lastOp.had
    /\ lastOp.url \notin DOMAIN cache
    /\ lastOp.save = "ok"
    /\ file = JsonFile(cache)

\* C3: with caching disabled, no call changes the in-memory map or the backing
\* file, and every get returns null.
C3_DisabledIsInert ==
    [][~enabled => /\ cache' = cache
                   /\ file' = file
                   /\ lastOp'.op = "get" => lastOp'.ret = Null]_vars

\* A disabled get that returned null for a URL present and unexpired in the
\* loaded map
C3_Witness ==
    /\ ~enabled
    /\ lastOp.op = "get"
    /\ lastOp.had
    /\ lastOp.url \in DOMAIN cache
    /\ lastOp.now - cache[lastOp.url].timestamp <= CacheTTL
    /\ lastOp.ret = Null
    /\ file = JsonFile(cache)

(***************************************************************************)
(* Properties of the backends, checked under SpecBackend                   *)
(***************************************************************************)
ReturnsStrOrNone(run) == IsStr(run.ret) \/ run.ret = None

OneEvent(run) == Len(run.events) = 1

Selected == IF fetchRun.ext THEN "spider" ELSE "direct"

NoContent == fetchRun.op = "fetch" /\ ~Truthy(fetchRun.out.content)

\* C9: when the backend selected by use_external_crawler returns null or empty
\* content, fetch returns null; the only requests issued are the one to the
\* selected backend and, after a failed direct fetch, the diagnostic request,
\* whose response is not returned even when it succeeds.
C9_NoFallback ==
    NoContent =>
        /\ fetchRun.out.ret = None
        /\ fetchRun.out.calls = IF fetchRun.ext THEN <<"spider">> ELSE <<"direct", "diag">>
        /\ Len(fetchRun.out.events) = 1
        /\ fetchRun.out.events[1].type = Selected
        /\ fetchRun.out.files = {}

\* A failed direct fetch whose diagnostic request succeeded: null all the same
C9_Witness ==
    /\ NoContent
    /\ ~fetchRun.ext
    /\ fetchRun.env.direct.t = "status"
    /\ fetchRun.env.diag.t = "ok"
    /\ fetchRun.out.calls = <<"direct", "diag">>
    /\ fetchRun.out.ret = None

(***************************************************************************)
(* Properties of fetch_batch, checked under SpecBatch                      *)
(***************************************************************************)
Returned == bpc = "done" /\ max_concurrent >= 1

\* The position of the last occurrence of url in the input list
LastOccurrence(url) ==
    CHOOSE k \in 1..Len(urls) :
        urls[k] = url /\ \A j \in (k + 1)..Len(urls) : urls[j] # url

InputUrls == {urls[k] : k \in 1..Len(urls)}

\* C4: when fetch_batch returns (max_concurrent >= 1), the keys of the mapping
\* are exactly the input URLs and each URL holds the value made from the result
\* of its last occurrence.
C4_OneEntryPerUrl ==
    Returned =>
        /\ DOMAIN results = InputUrls
        /\ Len(calls) = Len(urls)
        /\ \A k \in 1..Len(urls) : calls[k].url = urls[k]
        /\ \A u \in InputUrls : results[u] = calls[LastOccurrence(u)].stored

\* A URL given twice whose two calls gave different values: one entry, the later
C4_Witness ==
    /\ Returned
    /\ Len(urls) = 2
    /\ urls[1] = urls[2]
    /\ calls[1].stored # calls[2].stored
    /\ DOMAIN results = {urls[1]}
    /\ results[urls[1]] = calls[2].stored

Ceil(n, m) == (n + m - 1) \div m

\* C5: with max_concurrent = m >= 1, the calls in flight all belong to the
\* current window and are never more than m, a window is dispatched only when
\* no call is in flight, and at return exactly ceil(N/m) windows have run.
C5_SequentialWindows ==
    /\ [](max_concurrent >= 1 =>
            /\ Cardinality(running) <= max_concurrent
            /\ peak <= max_concurrent
            /\ running \subseteq (i + 1)..(i + max_concurrent)
            /\ windows <= Ceil(Len(urls), max_concurrent)
            /\ bpc = "done" => windows = Ceil(Len(urls), max_concurrent))
    /\ [][windows' # windows =>
            /\ running = {}
            /\ windows' = windows + 1
            /\ i = max_concurrent * windows]_vars

\* Five URLs, two at a time: three windows, two calls in flight at most
C5_Witness ==
    /\ Returned
    /\ urls = BatchExample
    /\ max_concurrent = 2
    /\ windows = 3
    /\ peak = 2
    /\ running = {}

\* C6: a call that raises gives null for its URL and nothing else: the batch
\* returns (it does not raise when max_concurrent >= 1), and the URL of every
\* call that returned a string holds a string.
C6_FailureIsolated ==
    /\ max_concurrent >= 1 => bpc # "raised"
    /\ Returned =>
          \A u \in InputUrls :
              LET call == calls[LastOccurrence(u)]
              IN  /\ IsException(call.res) => results[u] = None
                  /\ IsStr(call.res) => IsStr(results[u])
                  /\ results[u] = None <=> (IsException(call.res) \/ call.res = None)

\* The Reddit call of the first window raised, the four other URLs succeeded:
\* five entries, one null
C6_Witness ==
    /\ Returned
    /\ urls = BatchExample
    /\ max_concurrent = 2
    /\ IsException(calls[1].res)
    /\ DOMAIN results = InputUrls
    /\ Cardinality(InputUrls) = 5
    /\ {u \in InputUrls : results[u] = None} = {UrlReddit}
    /\ \A u \in InputUrls \ {UrlReddit} : IsStr(results[u])

\* C8: fetch_batch never ends by raising to its caller.
C8_BatchNeverRaises == bpc # "raised"

IsYoutube(url) == Truthy(extract_youtube_id(url))

\* The value of a YouTube URL as stated: the transcript result itself
C10_TranscriptVerbatim ==
    Returned =>
        \A u \in InputUrls :
            IsYoutube(u) => results[u] = calls[LastOccurrence(u)].res

\* C10: for a URL classified as YouTube, whatever save_debug and
\* use_external_crawler are, the call is the transcript fetch and the value is:
\* null when the transcript fetch gave null; for a URL that also contains
\* "reddit.com", the sanitized output of the Reddit converter applied to the
\* transcript (its JSON parse error text), for every format; otherwise the
\* transcript itself for HTML and SUMMARY and the transcript passed through
\* sanitize_markdown_links for MARKDOWN.
C10_TranscriptValue ==
    Returned =>
        \A u \in InputUrls :
            IsYoutube(u) =>
                LET call == calls[LastOccurrence(u)]
                IN  /\ call.kind = "youtube"
                    /\ call.res \in TranscriptReturns
                    /\ call.res = None => results[u] = None
                    /\ (call.res # None /\ Contains(RedditCom, u)) =>
                          results[u] = sanitize_markdown_links(Text(ErrorParsing))
                    /\ (call.res # None /\ ~Contains(RedditCom, u)) =>
                          results[u] = IF output_format = "markdown"
                                       THEN sanitize_markdown_links(call.res)
                                       ELSE call.res

\* MARKDOWN was asked for and the transcript holds a link: the value returned
\* is the sanitized transcript, not the transcript
C10_Witness ==
    /\ Returned
    /\ output_format = "markdown"
    /\ urls = <<UrlYoutuBe>>
    /\ calls[1].kind = "youtube"
    /\ IsStr(calls[1].res)
    /\ sanitize_markdown_links(calls[1].res) # calls[1].res
    /\ results[UrlYoutuBe] = sanitize_markdown_links(calls[1].res)

IsRedditOnly(url) == Contains(RedditCom, url) /\ ~IsYoutube(url)

\* C11: for a URL containing "reddit.com" that is not YouTube, whatever
\* use_external_crawler is, the call dispatched is the universal backend on the
\* URL rewritten to end in ".json"; a call that raised gives null, a string
\* result gives the sanitizer applied to the Reddit converter's output.
C11_RedditPath ==
    Returned =>
        \A u \in InputUrls :
            IsRedditOnly(u) =>
                LET call == calls[LastOccurrence(u)]
                IN  /\ call.kind = "reddit"
                    /\ call.arg = convert_reddit_url_to_json(u)
                    /\ EndsWith(call.arg, <<".json">>)
                    /\ call.res \in UniversalReturns
                    /\ IsException(call.res) => results[u] = None
                    /\ IsStr(call.res) =>
                          results[u] = sanitize_markdown_links(
                                           convert_reddit_json_to_markdown(call.res))

\* The external crawler was asked for, the universal backend returned a thread
\* whose comments hold links: the value is the converter's Markdown, sanitized
C11_Witness ==
    /\ Returned
    /\ use_external_crawler
    /\ urls = <<UrlReddit>>
    /\ calls[1].kind = "reddit"
    /\ calls[1].res = JsonText("thread")
    /\ convert_reddit_json_to_markdown(calls[1].res)
         # sanitize_markdown_links(convert_reddit_json_to_markdown(calls[1].res))
    /\ results[UrlReddit]
         = sanitize_markdown_links(convert_reddit_json_to_markdown(calls[1].res))

IsGeneric(url) == ~IsYoutube(url) /\ ~Contains(RedditCom, url)

\* What fetch returns when it has content: the content itself for HTML, the
\* converter's Markdown for MARKDOWN, the summarizer's output for SUMMARY, and
\* null when the conversion gave nothing or a step raised
DispatcherOutput ==
    \A fmt \in Formats, sd \in BOOLEAN, ext \in BOOLEAN :
        \A env \in FetchEnvs(fmt, sd, ext) :
            LET out == fetch(UrlGeneric, fmt, sd, ext, env)
            IN  /\ out.ret \in {None,
                                CASE fmt = "html" -> out.content
                                  [] fmt = "markdown" -> env.md
                                  [] env.summary.t = "ok" -> env.summary.text
                                  [] OTHER -> None}
                /\ (fmt # "html" /\ ~Truthy(env.md)) => out.ret = None

\* The value of a generic URL as stated: the dispatcher's output, never sanitized
C12_GenericUnmodified ==
    Returned =>
        \A u \in InputUrls :
            IsGeneric(u) => results[u] = calls[LastOccurrence(u)].res

\* C12: for a generic URL the call dispatched is fetch, whose output is the raw
\* content (HTML), the converter's Markdown (MARKDOWN) or the summarizer's
\* output (SUMMARY), or null; the value stored is that output unmodified for
\* HTML and SUMMARY and that output passed through sanitize_markdown_links for
\* MARKDOWN (null staying null).
C12_GenericValue ==
    /\ DispatcherOutput
    /\ Returned =>
          \A u \in InputUrls :
              IsGeneric(u) =>
                  LET call == calls[LastOccurrence(u)]
                  IN  /\ call.kind = "fetch"
                      /\ call.res \in FetchReturns[u, output_format, save_debug,
                                                   use_external_crawler]
                      /\ results[u] = IF output_format = "markdown"
                                      THEN sanitize_markdown_links(call.res)
                                      ELSE call.res

\* MARKDOWN for a generic page whose Markdown holds a link: the value stored
\* has lost the link
C12_Witness ==
    /\ Returned
    /\ output_format = "markdown"
    /\ urls = <<UrlGeneric>>
    /\ calls[1].kind = "fetch"
    /\ calls[1].res = Text(<<"read", " ">> \o Link("more", "x.io"))
    /\ results[UrlGeneric] = Text(<<"read", " ", "more">>)

\* C13: when two elements, or an element and a tail, of the HTML carry the
\* same trimmed text, the output of html_to_markdown contains that text at
\* most once (strong/b/em/i and anchors included).
C13_TextAtMostOnce ==
    (input.fn = "html_to_markdown" /\ outputs # <<>>) =>
        LET texts == itertext(input.document)
            twice(t) == \E a, b \in 1..Len(texts) :
                            a < b /\ Strip(texts[a]) = t /\ Strip(texts[b]) = t
            count(t, out) == Cardinality({k \in 1..Len(out) : OccursAt(t, out, k)})
        IN  \A n \in 1..Len(texts) :
                (Strip(texts[n]) # <<>> /\ twice(Strip(texts[n])))
                    => count(Strip(texts[n]), outputs[1].v) <= 1

\* C14: no line of html_to_markdown's output contains a noise substring of
\* the list, compared without regard to case, for every entry of the list
\* ("NaN" included).
C14_NoNoiseLine ==
    (input.fn = "html_to_markdown" /\ outputs # <<>> /\ IsStr(outputs[1])) =>
        LET lines == SplitLines(outputs[1].v)
        IN  \A n \in 1..Len(lines) :
                \A pattern \in skip_patterns :
                    ~Contains(lower(pattern), lower(lines[n]))

\* C15: extract_youtube_id returns, for a URL containing
\* "youtube.com/watch?v=", the value of the parameter v (what follows that
\* "v=") cut at the next "&", whatever parameters follow; for a URL containing
\* "youtu.be/", the last path segment; for any other URL, None.
C15_VideoId ==
    (input.fn = "extract_youtube_id" /\ outputs # <<>>) =>
        LET url == input.url
            at == CHOOSE k \in 1..Len(url) :
                      /\ OccursAt(YoutubeWatch, url, k)
                      /\ \A j \in 1..(k - 1) : ~OccursAt(YoutubeWatch, url, j)
            value == SubSeq(url, at + Len(YoutubeWatch), Len(url))
        IN  outputs[1] = IF Contains(YoutubeWatch, url) THEN Text(SplitFirst(value, "&"))
                         ELSE IF Contains(YoutuBe, url) THEN Text(SplitLast(url, "/"))
                         ELSE None

\* C16: convert_reddit_url_to_json strips one trailing slash and appends
\* ".json" only when the URL does not already end in ".json"; applied to its
\* own output it returns the same string (no double ".json").
C16_RewriteIdempotent ==
    (input.fn = "convert_reddit_url_to_json" /\ outputs # <<>>) =>
        LET url == input.url
            json == <<".json">>
            stripped == IF url # <<>> /\ url[Len(url)] = "/"
                        THEN SubSeq(url, 1, Len(url) - 1) ELSE url
            first == outputs[1].v
        IN  /\ EndsWith(first, json)
            /\ EndsWith(stripped, json) => first = stripped
            /\ ~EndsWith(stripped, json) => first = stripped \o json
            /\ ~EndsWith(first, json \o json) \/ EndsWith(stripped, json \o json)
            /\ Len(outputs) >= 2 => outputs[2] = outputs[1]

\* A URL that already ends in ".json", behind a trailing slash, rewritten twice:
\* both results are the URL without the slash
C16_Witness ==
    /\ input.fn = "convert_reddit_url_to_json"
    /\ input.url = <<"https://reddit.com/r/t", ".json", "/">>
    /\ outputs = <<Text(<<"https://reddit.com/r/t", ".json">>),
                   Text(<<"https://reddit.com/r/t", ".json">>)>>

\* C17: html_to_markdown never visits the subtree of a script, style, nav,
\* footer, header or aside element, so a text that occurs only inside such a
\* subtree never appears in the output; a heading gives "#" x level, a space
\* and its text, an anchor with a followed href gives [text](href): the sample
\* page gives Markdown with "# Title" and "[world](https://x.com)" and
\* without "skip".
C17_SkipSubtrees ==
    (input.fn = "html_to_markdown" /\ outputs # <<>> /\ input.document # NoElem) =>
        LET RECURSIVE Texts(_, _, _)
            Texts(elem, within, want) ==
                LET inside == within \/ elem.tag \in skip_tags
                    here(t) == IF inside = want /\ Strip(t) # <<>> THEN {Strip(t)} ELSE {}
                IN  here(elem.text)
                    \cup UNION {Texts(elem.kids[n], inside, want) \cup here(elem.kids[n].tail) :
                                   n \in 1..Len(elem.kids)}
            skipped == Texts(input.document, FALSE, TRUE)
            content == Texts(input.document, FALSE, FALSE)
            out == outputs[1].v
        IN  /\ \A t \in skipped \ content : ~Contains(t, out)
            /\ input.document = SamplePage =>
                  /\ Contains(<<"#", " ", "Title">>, out)
                  /\ Contains(<<"[", "world", "]", "(", "https://", "x.com", ")">>, out)
                  /\ ~Contains(<<"skip">>, out)

\* C18: no cache operation raises on a file I/O failure: construction gives
\* the empty map when the cache file is missing, unreadable or invalid, and a
\* failed write during set or an expiring get leaves the in-memory map
\* updated (the entry set is there, the expired entry is gone).
C18_NoRaiseOnIO ==
    /\ lastOp.op = "init" => ~lastOp.raised
    /\ (lastOp = NoOp /\ file.kind # "json") => cache = EmptyMap
    /\ (lastOp.op = "set" /\ enabled) =>
          /\ lastOp.url \in DOMAIN cache
          /\ cache[lastOp.url] = CacheEntry(lastSet[lastOp.url].data, lastOp.now)
    /\ (lastOp.op = "get" /\ lastOp.save # "none") => lastOp.url \notin DOMAIN cache
    /\ (lastOp.op = "get" /\ enabled /\ lastOp.had /\ lastOp.save = "none") =>
          lastOp.ret = cache[lastOp.url].data

\* C19: convert_reddit_json_to_markdown, given listing data that lacks the
\* required structure (a one-element list whose data object has no children,
\* a listing whose data is not an object, a top-level object), returns a
\* string containing "Error:".
C19_ErrorMarker ==
    (/\ input.fn = "convert_reddit_json_to_markdown"
     /\ input.json \in {JsonText(d) : d \in RedditDocs \ {"thread"}}
     /\ outputs # <<>>) =>
        /\ IsStr(outputs[1])
        /\ Contains(<<"Error", ":">>, outputs[1].v)

\* C20: whatever order the calls of a window complete in, when fetch_batch
\* returns the k-th result mapped is the result of the call dispatched for the
\* k-th URL (task list and result list are index-aligned), and the value
\* stored for a URL is made from the result of the call dispatched for it.
C20_IndexAligned ==
    Returned =>
        /\ Len(calls) = Len(urls)
        /\ \A k \in 1..Len(calls) :
              /\ calls[k].url = urls[k]
              /\ calls[k].kind = CallFor(urls[k]).kind
              /\ calls[k].arg = CallFor(urls[k]).arg
              /\ calls[k].res \in CASE calls[k].kind = "youtube" -> TranscriptReturns
                                    [] calls[k].kind = "reddit" -> UniversalReturns
                                    [] OTHER -> FetchReturns[urls[k], output_format,
                                                             save_debug,
                                                             use_external_crawler]
              /\ calls[k].stored = MapResult(urls[k], calls[k].res, output_format)
        /\ \A u \in InputUrls :
              results[u] = MapResult(u, calls[LastOccurrence(u)].res, output_format)

\* Two different URLs in one window, the second call completing first, with
\* results that give different values: each URL holds the value of its own call
C20_Witness ==
    /\ Returned
    /\ max_concurrent >= 2
    /\ Len(urls) >= 2
    /\ urls[1] # urls[2]
    /\ calls[1].ord = 2
    /\ calls[2].ord = 1
    /\ MapResult(urls[1], calls[1].res, output_format)
         # MapResult(urls[1], calls[2].res, output_format)
    /\ results[urls[1]] = MapResult(urls[1], calls[1].res, output_format)
    /\ results[urls[2]] = MapResult(urls[2], calls[2].res, output_format)

\* C21: get and set have no await, so under any interleaving of the tasks of
\* one process each runs as one step: after each one that writes successfully
\* the file holds exactly the whole in-memory map, every entry of the map is a
\* whole entry, and the last set of each URL is in the map as written until a
\* get past the TTL removes it (no set is lost or partly visible).
C21_AtomicGetSet ==
    /\ (lastOp.op \in {"get", "set"} /\ lastOp.save = "ok") => file = JsonFile(cache)
    /\ \A u \in DOMAIN cache :
          cache[u] \in [data : CacheData, timestamp : 0..MaxTime]
    /\ \A u \in CacheUrls :
          lastSet[u] # NoSet =>
              IF u \in DOMAIN cache
              THEN cache[u] = CacheEntry(lastSet[u].data, lastSet[u].timestamp)
              ELSE expGets[u] = 1

\* A set that wrote successfully after the other URL was set at an earlier
\* time: the file is the map, which holds both sets
C21_Witness ==
    /\ lastOp.op = "set"
    /\ lastOp.save = "ok"
    /\ file = JsonFile(cache)
    /\ DOMAIN cache = CacheUrls
    /\ \A u \in CacheUrls : lastSet[u] # NoSet
    /\ \E u \in CacheUrls : lastSet[u].timestamp < lastOp.now

\* C22: two processes share the cache file, both have loaded it, and each
\* sets a different URL that the loaded file did not hold, both writes
\* succeeding: the file is the whole map of the process that wrote last, so it
\* misses the entry of the other one (lost update), while each process still
\* holds its own entry in memory.
C22_LostUpdate ==
    \A u, v \in CacheUrls :
        (/\ u # v
         /\ {u, v} \cap DOMAIN peer.loaded = {}
         /\ {x \in CacheUrls : lastSet[x] # NoSet} = {u}
         /\ peer.sets = {v}
         /\ lastOp.save = "ok"
         /\ peer.save = "ok") =>
            /\ file \in {JsonFile(cache), JsonFile(peer.cache)}
            /\ ~({u, v} \subseteq DOMAIN file.map)
            /\ DOMAIN cache = {u}
            /\ DOMAIN peer.cache = {v}

\* This process set u1 and wrote the file, then the peer set u2 and wrote it:
\* the file holds u2 only
C22_Witness ==
    /\ peer.loaded = EmptyMap
    /\ lastSet["u1"] # NoSet
    /\ lastSet["u2"] = NoSet
    /\ lastOp.save = "ok"
    /\ peer.sets = {"u2"}
    /\ peer.save = "ok"
    /\ "u1" \in DOMAIN cache
    /\ DOMAIN file.map = {"u2"}

\* C23: html_to_markdown scans from the first <main> element whenever the
\* document has one, whether or not that element has child elements, otherwise
\* from the first <article>, otherwise from <body>, otherwise from the whole
\* document: a text that lies only outside that root never appears in the
\* output.
C23_ScanRoot ==
    (input.fn = "html_to_markdown" /\ outputs # <<>> /\ input.document # NoElem) =>
        LET RECURSIVE First(_, _)
            First(kids, tag) ==
                IF kids = <<>> THEN NoElem
                ELSE IF kids[1].tag = tag THEN kids[1]
                ELSE LET found == First(kids[1].kids, tag)
                     IN  IF found # NoElem THEN found ELSE First(Tail(kids), tag)
            first(tag) == First(input.document.kids, tag)
            root == IF first("main") # NoElem THEN first("main")
                    ELSE IF first("article") # NoElem THEN first("article")
                    ELSE IF first("body") # NoElem THEN first("body")
                    ELSE input.document
            texts(elem) ==
                LET all == itertext(elem) \o <<elem.tail>>
                IN  {Strip(all[n]) : n \in 1..Len(all)} \ {<<>>}
        IN  \A t \in texts(input.document) \ texts(root) : ~Contains(t, outputs[1].v)

\* C24: in html_to_markdown every element visited inside the scan root, an
\* anchor emitted as [text](href) included, gives its own text, then its
\* children, then its tail: the non-blank tail of every visited element is in
\* the output unless noise filtering dropped its line (a tail already seen is
\* in the output too, from its first occurrence).
C24_TailEmitted ==
    (input.fn = "html_to_markdown" /\ outputs # <<>> /\ input.document # NoElem) =>
        LET found == main_content(input.document)
            root == IF found # NoElem THEN found ELSE input.document
            skipped(elem) ==
                \/ elem.tag \in skip_tags
                \/ \A n \in 1..Len(itertext(elem)) : Strip(itertext(elem)[n]) = <<>>
            RECURSIVE Tails(_)
            Tails(elem) ==
                IF skipped(elem) THEN {}
                ELSE {Strip(elem.tail)}
                     \cup UNION {Tails(elem.kids[n]) : n \in 1..Len(elem.kids)}
            noise(t) == \E pattern \in skip_patterns : Contains(pattern, lower(t))
        IN  \A t \in Tails(root) \ {<<>>} : noise(t) \/ Contains(t, outputs[1].v)

\* C25: the Reddit post-processor renders a comment at depth 0 with a
\* "## Comment by" heading and an unprefixed body, and a reply at depth d >= 1
\* with its header and every body line prefixed with "> " repeated exactly d
\* times: in the thread, ann (depth 0) is a heading and plain lines, and the
\* header and the body of bob's reply (depth 1) each start with one "> ".
C25_QuoteDepth ==
    (input.fn = "convert_reddit_json_to_markdown" /\ input.json = JsonText("thread")
        /\ outputs # <<>>) =>
        LET lines == SplitLines(outputs[1].v)
            has(line) == \E n \in 1..Len(lines) : lines[n] = line
            quote(d) == Repeat(<<">", " ">>, d)
        IN  /\ has(<<"##", " ", "Comment", " ", "by", " ", "u/", "ann">>)
            /\ has(<<"bye">>)
            /\ has(quote(1) \o <<"**", "u/", "bob", " ", "|", " ", "Score", ":", " ", "2", "**">>)
            /\ has(quote(1) \o <<"yes", " ", "http://", "y.io">>)

C27_SanitizeIdempotent ==
    (input.fn = "sanitize_markdown_links" /\ outputs # <<>>) =>
        LET out == outputs[1].v
        IN  /\ SubLinks(out) = out
            /\ \A k \in 1..Len(out) : out[k] \notin {"http://", "https://"}
            /\ input.markdown.v = <<"[", "a", "]", "(", "/x", ")">> => out = <<"a">>
            /\ Len(outputs) >= 2 => outputs[2] = outputs[1]

\* C28: in fetch with save_debug set, whenever the backend returned raw HTML
\* the raw HTML file is written, also when the Markdown conversion produced
\* nothing, and the Markdown file is written exactly when a Markdown was
\* produced (the debug directory being writable).
C28_DebugFiles ==
    (fetchRun.op = "fetch" /\ fetchRun.sd /\ Truthy(fetchRun.out.content)
        /\ fetchRun.env.debug = "ok") =>
        /\ "html" \in fetchRun.out.files
        /\ "md" \in fetchRun.out.files <=>
              (fetchRun.fmt \in {"markdown", "summary"} /\ Truthy(fetchRun.env.md))

\* C29: in fetch_batch the post-processing of a URL's result matches the
\* backend dispatched for that URL: the Reddit converter runs on the results of
\* the Reddit path only; a string that came from the transcript fetch or from
\* fetch is stored as it is, or sanitized for MARKDOWN, also when the URL of a
\* YouTube video contains "reddit.com".
C29_PostProcessMatches ==
    Returned =>
        \A u \in InputUrls :
            LET call == calls[LastOccurrence(u)]
                plain == IF output_format = "markdown"
                         THEN sanitize_markdown_links(call.res)
                         ELSE call.res
            IN  IsStr(call.res) =>
                    results[u] = IF call.kind = "reddit"
                                 THEN sanitize_markdown_links(
                                          convert_reddit_json_to_markdown(call.res))
                                 ELSE plain

====
